---------------------------- MODULE Spec2Model ----------------------------
(***************************************************************************)
(* A model of nxcypher: the Cypher executor (src/nxcypher/executor.py),    *)
(* the algorithm registry (src/nxcypher/algorithms.py) and the query data  *)
(* model (src/nxcypher/model.py).                                          *)
(*                                                                         *)
(* Python objects are modelled as tagged records [k |-> kind, v |-> ...]:  *)
(* a str is the sequence of its characters, a tuple the sequence of its    *)
(* elements, a dict a function from str keys (character sequences) to      *)
(* objects, a number a fraction <<p, q>> in lowest terms.  An expression   *)
(* of the query AST is a Python tuple, hence an object of kind "tuple".    *)
(* A raised exception is the object Raise(name).                           *)
(***************************************************************************)
EXTENDS Integers, Sequences, FiniteSets, TLC

-----------------------------------------------------------------------------
(* Characters and strings                                                  *)

\* The characters the model uses, in code point order.
DigitSeq == << "0", "1", "2", "3", "4", "5", "6", "7", "8", "9" >>
UpperSeq ==
    << "A", "B", "C", "D", "E", "F", "G", "H", "I", "J", "K", "L", "M", "N",
       "O", "P", "Q", "R", "S", "T", "U", "V", "W", "X", "Y", "Z" >>
LowerSeq ==
    << "a", "b", "c", "d", "e", "f", "g", "h", "i", "j", "k", "l", "m", "n",
       "o", "p", "q", "r", "s", "t", "u", "v", "w", "x", "y", "z" >>
Charset ==
    << " ", "!", "%", "*", "+", "-", ".", "/" >> \o DigitSeq
        \o << "<", "=", ">" >> \o UpperSeq \o << "_" >> \o LowerSeq \o << "|" >>

Range(f) == {f[i] : i \in DOMAIN f}

\* ord(c), up to an order-preserving renumbering.
Ord(c) == CHOOSE i \in 1..Len(Charset) : Charset[i] = c

\* str.upper() on one character.
UpperChar(c) ==
    IF c \in Range(LowerSeq)
    THEN UpperSeq[CHOOSE i \in 1..Len(LowerSeq) : LowerSeq[i] = c]
    ELSE c

\* str.upper()
Upper(s) == [i \in 1..Len(s) |-> UpperChar(s[i])]

\* The regular expression classes \w and \d on the model's characters.
IsWord(c) == c \in Range(LowerSeq) \cup Range(UpperSeq) \cup Range(DigitSeq) \cup {"_"}
IsDigit(c) == c \in Range(DigitSeq)

DigitVal(c) == (CHOOSE i \in 1..Len(DigitSeq) : DigitSeq[i] = c) - 1

\* int(s) for a string of decimal digits.
RECURSIVE ParseInt(_)
ParseInt(s) ==
    IF Len(s) = 0 THEN 0
    ELSE 10 * ParseInt(SubSeq(s, 1, Len(s) - 1)) + DigitVal(s[Len(s)])

\* s < t for two str (lexicographic by code point).
RECURSIVE StrLess(_, _)
StrLess(s, t) ==
    IF Len(t) = 0 THEN FALSE
    ELSE IF Len(s) = 0 THEN TRUE
    ELSE IF s[1] = t[1] THEN StrLess(Tail(s), Tail(t))
    ELSE Ord(s[1]) < Ord(t[1])

-----------------------------------------------------------------------------
(* Python objects                                                          *)

NoneV == [k |-> "None", v |-> <<>>]
StrV(s) == [k |-> "str", v |-> s]
TupV(xs) == [k |-> "tuple", v |-> xs]
ListV(xs) == [k |-> "list", v |-> xs]
SetV(S) == [k |-> "set", v |-> S]
DictV(d) == [k |-> "dict", v |-> d]
\* A function object, by the name of its def.
FuncV(name) == [k |-> "function", v |-> name]
Raise(e) == [k |-> "raise", v |-> e]

Abs(n) == IF n < 0 THEN 0 - n ELSE n

RECURSIVE Gcd(_, _)
Gcd(a, b) == IF b = 0 THEN a ELSE Gcd(b, a % b)

\* The fraction p/q (q # 0) in lowest terms with a positive denominator.
Frac(p, q) ==
    LET g == Gcd(Abs(p), Abs(q))
        s == IF q < 0 THEN 0 - 1 ELSE 1
    IN  << (s * p) \div g, (s * q) \div g >>

IntV(n) == [k |-> "int", v |-> <<n, 1>>]
FloatV(f) == [k |-> "float", v |-> f]
BoolV(b) == [k |-> "bool", v |-> <<IF b THEN 1 ELSE 0, 1>>]
TrueV == BoolV(TRUE)
FalseV == BoolV(FALSE)

IsRaise(x) == x.k = "raise"
\* int, float and bool are one numeric tower: True == 1 == 1.0.
IsNum(x) == x.k \in {"int", "float", "bool"}
\* The result kind of an arithmetic operator other than true division.
NumKind(a, b) == IF a.k = "float" \/ b.k = "float" THEN "float" ELSE "int"
NumV(kind, f) == [k |-> kind, v |-> f]

\* floor(f): \div rounds towards minus infinity for a positive divisor.
FracFloor(f) == f[1] \div f[2]

\* a == b
RECURSIVE PyEq(_, _)
PyEq(a, b) ==
    IF IsNum(a) /\ IsNum(b) THEN a.v = b.v
    ELSE IF a.k # b.k THEN FALSE
    ELSE CASE a.k = "None" -> TRUE
           [] a.k \in {"str", "function"} -> a.v = b.v
           [] a.k \in {"tuple", "list"} ->
                /\ Len(a.v) = Len(b.v)
                /\ \A i \in 1..Len(a.v) : PyEq(a.v[i], b.v[i])
           [] a.k = "set" ->
                /\ \A x \in a.v : \E y \in b.v : PyEq(x, y)
                /\ \A y \in b.v : \E x \in a.v : PyEq(x, y)
           [] a.k = "dict" ->
                /\ DOMAIN a.v = DOMAIN b.v
                /\ \A key \in DOMAIN a.v : PyEq(a.v[key], b.v[key])

\* hash(x) succeeds: x can be a dict key or a set member.
RECURSIVE Hashable(_)
Hashable(x) ==
    CASE x.k \in {"None", "int", "float", "bool", "str", "function"} -> TRUE
      [] x.k = "tuple" -> \A i \in 1..Len(x.v) : Hashable(x.v[i])
      [] x.k \in {"list", "set", "dict"} -> FALSE

\* bool(x)
Truthy(x) ==
    CASE x.k = "None" -> FALSE
      [] IsNum(x) -> x.v[1] # 0
      [] x.k \in {"str", "tuple", "list"} -> Len(x.v) > 0
      [] x.k = "set" -> x.v # {}
      [] x.k = "dict" -> DOMAIN x.v # {}
      [] x.k = "function" -> TRUE

\* The order relations "<", "<=", ">", ">=" on two int.
RelInt(rel, m, n) ==
    CASE rel = "<" -> m < n
      [] rel = "<=" -> m <= n
      [] rel = ">" -> m > n
      [] rel = ">=" -> m >= n

\* a rel b for rel one of "<", "<=", ">", ">=": a bool, or TypeError when the
\* operands are not ordered (None, dict, or operands of different types).
RECURSIVE Compare(_, _, _)
Compare(rel, a, b) ==
    IF IsNum(a) /\ IsNum(b)
    THEN BoolV(RelInt(rel, a.v[1] * b.v[2], b.v[1] * a.v[2]))
    ELSE IF a.k = "str" /\ b.k = "str"
    THEN BoolV(CASE rel = "<" -> StrLess(a.v, b.v)
                 [] rel = "<=" -> ~StrLess(b.v, a.v)
                 [] rel = ">" -> StrLess(b.v, a.v)
                 [] rel = ">=" -> ~StrLess(a.v, b.v))
    ELSE IF a.k = b.k /\ a.k \in {"tuple", "list"}
    THEN LET n == IF Len(a.v) < Len(b.v) THEN Len(a.v) ELSE Len(b.v)
             diff == {i \in 1..n : ~PyEq(a.v[i], b.v[i])}
         IN  IF diff = {} THEN BoolV(RelInt(rel, Len(a.v), Len(b.v)))
             ELSE LET i == CHOOSE j \in diff : \A j2 \in diff : j <= j2
                  IN  Compare(rel, a.v[i], b.v[i])
    ELSE IF a.k = "set" /\ b.k = "set"
    THEN LET sub(X, Y) == \A x \in X : \E y \in Y : PyEq(x, y)
         IN  BoolV(CASE rel = "<" -> sub(a.v, b.v) /\ ~sub(b.v, a.v)
                     [] rel = "<=" -> sub(a.v, b.v)
                     [] rel = ">" -> sub(b.v, a.v) /\ ~sub(a.v, b.v)
                     [] rel = ">=" -> sub(b.v, a.v))
    ELSE Raise("TypeError")

-----------------------------------------------------------------------------
(* The operator tables of the executor                                     *)

\* xs * n for a str, tuple or list xs.
RECURSIVE Rep(_, _)
Rep(xs, n) == IF n <= 0 THEN <<>> ELSE xs \o Rep(xs, n - 1)

\* operator.add
PyAdd(a, b) ==
    IF IsNum(a) /\ IsNum(b)
    THEN NumV(NumKind(a, b), Frac(a.v[1] * b.v[2] + b.v[1] * a.v[2], a.v[2] * b.v[2]))
    ELSE IF a.k = b.k /\ a.k \in {"str", "tuple", "list"}
    THEN [k |-> a.k, v |-> a.v \o b.v]
    ELSE Raise("TypeError")

\* operator.sub
PySub(a, b) ==
    IF IsNum(a) /\ IsNum(b)
    THEN NumV(NumKind(a, b), Frac(a.v[1] * b.v[2] - b.v[1] * a.v[2], a.v[2] * b.v[2]))
    ELSE IF a.k = "set" /\ b.k = "set"
    THEN SetV({x \in a.v : ~\E y \in b.v : PyEq(x, y)})
    ELSE Raise("TypeError")

\* operator.mul
PyMul(a, b) ==
    IF IsNum(a) /\ IsNum(b)
    THEN NumV(NumKind(a, b), Frac(a.v[1] * b.v[1], a.v[2] * b.v[2]))
    ELSE IF a.k \in {"str", "tuple", "list"} /\ b.k \in {"int", "bool"}
    THEN [k |-> a.k, v |-> Rep(a.v, b.v[1])]
    ELSE IF b.k \in {"str", "tuple", "list"} /\ a.k \in {"int", "bool"}
    THEN [k |-> b.k, v |-> Rep(b.v, a.v[1])]
    ELSE Raise("TypeError")

\* operator.truediv
PyTrueDiv(a, b) ==
    IF IsNum(a) /\ IsNum(b)
    THEN IF b.v[1] = 0 THEN Raise("ZeroDivisionError")
         ELSE FloatV(Frac(a.v[1] * b.v[2], a.v[2] * b.v[1]))
    ELSE Raise("TypeError")

\* operator.mod: a - b * floor(a / b) on numbers; on a str, printf-style
\* formatting, here for a str without a conversion specifier (no "%").
PyMod(a, b) ==
    IF IsNum(a) /\ IsNum(b)
    THEN IF b.v[1] = 0 THEN Raise("ZeroDivisionError")
         ELSE LET fl == FracFloor(Frac(a.v[1] * b.v[2], a.v[2] * b.v[1]))
              IN  NumV(NumKind(a, b),
                       Frac(a.v[1] * b.v[2] - fl * b.v[1] * a.v[2], a.v[2] * b.v[2]))
    ELSE IF a.k = "str"
    THEN CASE "%" \notin Range(a.v) ->
              IF b.k = "dict" \/ (b.k = "tuple" /\ Len(b.v) = 0) THEN a
              ELSE Raise("TypeError")
    ELSE Raise("TypeError")

OpEq == << "=", "=" >>
OpNe == << "!", "=" >>
OpLt == << "<" >>
OpLe == << "<", "=" >>
OpGt == << ">" >>
OpGe == << ">", "=" >>
OpAdd == << "+" >>
OpSub == << "-" >>
OpMul == << "*" >>
OpDiv == << "/" >>
OpMod == << "%" >>
OpAnd == << "A", "N", "D" >>
OpOr == << "O", "R" >>
OpNot == << "N", "O", "T" >>

\* BinOps[op](av, bv): KeyError for an operator that is not in the table.
BinOps(op, av, bv) ==
    IF ~Hashable(op) THEN Raise("TypeError")
    ELSE IF op.k # "str" THEN Raise("KeyError")
    ELSE CASE op.v = OpEq -> BoolV(PyEq(av, bv))
           [] op.v = OpNe -> BoolV(~PyEq(av, bv))
           [] op.v = OpLt -> Compare("<", av, bv)
           [] op.v = OpLe -> Compare("<=", av, bv)
           [] op.v = OpGt -> Compare(">", av, bv)
           [] op.v = OpGe -> Compare(">=", av, bv)
           [] op.v = OpAdd -> PyAdd(av, bv)
           [] op.v = OpSub -> PySub(av, bv)
           [] op.v = OpMul -> PyMul(av, bv)
           [] op.v = OpDiv -> PyTrueDiv(av, bv)
           [] op.v = OpMod -> PyMod(av, bv)
           [] op.v = OpAnd -> BoolV(Truthy(av) /\ Truthy(bv))
           [] op.v = OpOr -> BoolV(Truthy(av) \/ Truthy(bv))
           [] OTHER -> Raise("KeyError")

\* UnOps[op](av)
UnOps(op, av) ==
    IF ~Hashable(op) THEN Raise("TypeError")
    ELSE IF op.k # "str" THEN Raise("KeyError")
    ELSE CASE op.v = OpSub ->
                IF IsNum(av)
                THEN NumV(IF av.k = "float" THEN "float" ELSE "int",
                          << 0 - av.v[1], av.v[2] >>)
                ELSE Raise("TypeError")
           [] op.v = OpNot -> BoolV(~Truthy(av))
           [] OTHER -> Raise("KeyError")

-----------------------------------------------------------------------------
(* The graph store (networkx DiGraph / MultiDiGraph) as the executor reads  *)
(* it.  A graph is a record                                                 *)
(*   multi : TRUE for a MultiDiGraph, FALSE for a DiGraph                   *)
(*   nodes : the node identifiers in the order G.nodes enumerates them      *)
(*   ndata : the attribute dict of each node, aligned with nodes            *)
(*   edges : the edges [u, v, key, data] in the order out_edges enumerates  *)
(*           them; a DiGraph edge has no key (None)                         *)

s_node == << "n", "o", "d", "e" >>
s_edge == << "e", "d", "g", "e" >>
s_labels == << "l", "a", "b", "e", "l", "s" >>
s_type == << "t", "y", "p", "e" >>

\* G.nodes[nid]: the attribute dict of node nid.
G_nodes(G, nid) ==
    IF ~Hashable(nid) THEN Raise("TypeError")
    ELSE LET hit == {i \in 1..Len(G.nodes) : PyEq(G.nodes[i], nid)}
         IN  IF hit = {} THEN Raise("KeyError")
             ELSE DictV(G.ndata[CHOOSE i \in hit : TRUE])

\* G.out_edges(n) / G.out_edges(n, keys=True), in enumeration order.
out_edges(G, n) ==
    LET from(e) == PyEq(e.u, n)
    IN  SelectSeq(G.edges, from)

\* G.get_edge_data(u, v, key).  MultiDiGraph: the data of edge (u, v, key),
\* None when there is none (key is not None here).  DiGraph: the third
\* positional parameter is `default`, so the data of edge (u, v), or key.
get_edge_data(G, u, v, key) ==
    IF ~(Hashable(u) /\ Hashable(v)) THEN Raise("TypeError")
    ELSE IF G.multi
    THEN CASE key.k # "None" ->
              IF ~Hashable(key) THEN Raise("TypeError")
              ELSE LET hit == {i \in 1..Len(G.edges) :
                                 /\ PyEq(G.edges[i].u, u)
                                 /\ PyEq(G.edges[i].v, v)
                                 /\ PyEq(G.edges[i].key, key)}
                   IN  IF hit = {} THEN NoneV
                       ELSE DictV(G.edges[CHOOSE i \in hit : TRUE].data)
    ELSE LET hit == {i \in 1..Len(G.edges) :
                       PyEq(G.edges[i].u, u) /\ PyEq(G.edges[i].v, v)}
         IN  IF hit = {} THEN key
             ELSE DictV(G.edges[CHOOSE i \in hit : TRUE].data)

\* d.get(key) and d.get(key, default) on a dict d with str keys.
DictGetOr(d, key, default) ==
    IF d.k # "dict" THEN Raise("AttributeError")
    ELSE IF ~Hashable(key) THEN Raise("TypeError")
    ELSE IF key.k = "str" /\ key.v \in DOMAIN d.v THEN d.v[key.v]
    ELSE default

DictGet(d, key) == DictGetOr(d, key, NoneV)

\* The elements iterating over x yields, as a set (x a set, tuple, list, str
\* or dict).
Elems(x) ==
    CASE x.k = "set" -> x.v
      [] x.k \in {"tuple", "list"} -> Range(x.v)
      [] x.k = "str" -> {StrV(<<x.v[i]>>) : i \in 1..Len(x.v)}
      [] x.k = "dict" -> {StrV(key) : key \in DOMAIN x.v}

Iterable(x) == x.k \in {"set", "tuple", "list", "str", "dict"}

\* x in xs
PyIn(x, xs) == \E y \in Elems(xs) : PyEq(x, y)

\* A binding row or output row: a dict with str keys.
EmptyRow == << >>
Put(row, key, val) ==
    [x \in DOMAIN row \cup {key} |-> IF x = key THEN val ELSE row[x]]

\* row.get(name)
RowGet(row, name) ==
    IF ~Hashable(name) THEN Raise("TypeError")
    ELSE IF name.k = "str" /\ name.v \in DOMAIN row THEN row[name.v]
    ELSE NoneV

NodeRef(nid) == TupV(<< StrV(s_node), nid >>)
EdgeRef(u, v, key) == TupV(<< StrV(s_edge), TupV(<< u, v, key >>) >>)

-----------------------------------------------------------------------------
(* Pattern matching (executor.py, "Matching").  The dataclasses of model.py *)
(* are records with the same field names; their fields are Python objects.  *)

NodePattern(var, labels, properties) ==
    [var |-> var, labels |-> labels, properties |-> properties]
RelPattern(var, types, properties) ==
    [var |-> var, types |-> types, properties |-> properties]
PatternElementChain(rel, node) == [rel |-> rel, node |-> node]
Pattern(head, chain) == [head |-> head, chain |-> chain]
Match(patterns) == [patterns |-> patterns]

\* The loop "for k, v in properties.items(): if data.get(k) != v: return
\* False" shared by _node_ok and _rel_ok: TRUE iff no property fails.
PropsOk(data, properties) ==
    \A key \in DOMAIN properties.v :
        PyEq(DictGet(data, StrV(key)), properties.v[key])

\* Cypher._node_ok(nid, npat)
_node_ok(G, nid, npat) ==
    LET ndata == G_nodes(G, nid)
        labels == DictGetOr(ndata, StrV(s_labels), SetV({}))
    IN  IF IsRaise(ndata) THEN ndata
        ELSE IF Truthy(npat.labels) /\ ~Iterable(labels) THEN Raise("TypeError")
        ELSE IF Truthy(npat.labels)
                /\ ~(\A l \in Elems(npat.labels) : PyIn(l, labels))
        THEN FalseV
        ELSE BoolV(PropsOk(ndata, npat.properties))

\* A _rel_ok that tests the type also against an empty type set.
_rel_ok_typed(G, u, v, key, rpat) ==
    LET edata == get_edge_data(G, u, v, key)
    IN  IF IsRaise(edata) THEN edata
        ELSE IF edata.k # "dict" THEN Raise("AttributeError")
        ELSE IF ~PyIn(DictGet(edata, StrV(s_type)), rpat.types) THEN FalseV
        ELSE BoolV(PropsOk(edata, rpat.properties))

\* Cypher._rel_ok(u, v, key, rpat)
_rel_ok(G, u, v, key, rpat) ==
    LET edata == get_edge_data(G, u, v, key)
    IN  IF IsRaise(edata) THEN edata
        ELSE IF edata.k # "dict" THEN Raise("AttributeError")
        ELSE IF Truthy(rpat.types) /\ ~PyIn(DictGet(edata, StrV(s_type)), rpat.types)
        THEN FalseV
        ELSE BoolV(PropsOk(edata, rpat.properties))

\* The key under which _walk_chain looks an out-edge up and binds it: the
\* edge's key on a MultiDiGraph, the constant 0 on a DiGraph.
EdgeKey(G, e) == IF G.multi THEN e.key ELSE IntV(0)

\* "if x.var: row[x.var] = val" on a copy of the row.
Bind(row, var, val) ==
    IF Truthy(var) THEN CASE var.k = "str" -> Put(row, var.v, val) ELSE row

\* Cypher._walk_chain(current_node, chain, row): the rows it yields, in order.
\* WalkEdges is its loop over the out-edges from the i-th on.
RECURSIVE _walk_chain(_, _, _, _), WalkEdges(_, _, _, _, _)
_walk_chain(G, current_node, chain, row) ==
    IF Len(chain) = 0 THEN << row >>
    ELSE WalkEdges(G, current_node, chain, row, 1)

WalkEdges(G, current_node, chain, row, i) ==
    LET es == out_edges(G, current_node)
        rel == chain[1].rel
        nxt == chain[1].node
    IN  IF i > Len(es) THEN << >>
        ELSE LET e == es[i]
                 key == EdgeKey(G, e)
                 nodeOk == _node_ok(G, e.v, nxt)
                 row2 == Bind(Bind(row, rel.var, EdgeRef(current_node, e.v, key)),
                              nxt.var, NodeRef(e.v))
                 here ==
                     CASE nodeOk = FalseV -> << >>
                       [] nodeOk = TrueV ->
                            LET relOk == _rel_ok(G, current_node, e.v, key, rel)
                            IN  CASE relOk = FalseV -> << >>
                                  [] relOk = TrueV ->
                                       _walk_chain(G, e.v, Tail(chain), row2)
             IN  here \o WalkEdges(G, current_node, chain, row, i + 1)

\* Cypher._match_single(pat, seed): the rows it yields, in order, from the
\* i-th node of G.nodes on.
RECURSIVE MatchFrom(_, _, _, _)
MatchFrom(G, pat, seed, i) ==
    IF i > Len(G.nodes) THEN << >>
    ELSE LET nid == G.nodes[i]
             nodeOk == _node_ok(G, nid, pat.head)
             row == Bind(seed, pat.head.var, NodeRef(nid))
             here ==
                 CASE nodeOk = FalseV -> << >>
                   [] nodeOk = TrueV -> _walk_chain(G, nid, pat.chain, row)
         IN  here \o MatchFrom(G, pat, seed, i + 1)

\* A _match_single with a consistency check: a row that re-binds a variable
\* of the seed to another value is dropped.
_match_single_checked(G, pat, seed) ==
    LET keeps(row) == \A x \in DOMAIN seed : row[x] = seed[x]
    IN  SelectSeq(MatchFrom(G, pat, seed, 1), keeps)

_match_single(G, pat, seed) == MatchFrom(G, pat, seed, 1)

\* The dict objects of one _match_single call.  objs[id] is the content of
\* the object id; out lists the objects yielded so far, in order, each with
\* the content it had when it was yielded.
Heap(objs, out) == [objs |-> objs, out |-> out]

\* A row2 that is the row itself and not a copy of it.
dict_same(h, row) == [heap |-> h, id |-> row]

\* dict(row): a new object with the content of the object row.
dict(h, row) ==
    [heap |-> Heap(Append(h.objs, h.objs[row]), h.out), id |-> Len(h.objs) + 1]

\* "if x.var: row[x.var] = val" on the object row.
Stored(h, row, var, val) == Heap([h.objs EXCEPT ![row] = Bind(@, var, val)], h.out)

\* "yield row"
Yielded(h, row) == Heap(h.objs, Append(h.out, [id |-> row, content |-> h.objs[row]]))

\* Cypher._walk_chain(current_node, chain, row) on the objects: the heap
\* after the generator is exhausted.  WalkEdgesOn is its loop over the
\* out-edges from the i-th on.
RECURSIVE WalkChainOn(_, _, _, _, _), WalkEdgesOn(_, _, _, _, _, _)
WalkChainOn(G, h, current_node, chain, row) ==
    IF Len(chain) = 0 THEN Yielded(h, row)
    ELSE WalkEdgesOn(G, h, current_node, chain, row, 1)

WalkEdgesOn(G, h, current_node, chain, row, i) ==
    LET es == out_edges(G, current_node)
        rel == chain[1].rel
        nxt == chain[1].node
    IN  IF i > Len(es) THEN h
        ELSE LET e == es[i]
                 key == EdgeKey(G, e)
                 nodeOk == _node_ok(G, e.v, nxt)
                 row2 == dict(h, row)
                 bound == Stored(Stored(row2.heap, row2.id, rel.var,
                                        EdgeRef(current_node, e.v, key)),
                                 row2.id, nxt.var, NodeRef(e.v))
                 here ==
                     CASE nodeOk = FalseV -> h
                       [] nodeOk = TrueV ->
                            LET relOk == _rel_ok(G, current_node, e.v, key, rel)
                            IN  CASE relOk = FalseV -> h
                                  [] relOk = TrueV ->
                                       WalkChainOn(G, bound, e.v, Tail(chain), row2.id)
             IN  WalkEdgesOn(G, here, current_node, chain, row, i + 1)

\* Cypher._match_single(pat, seed) on the objects, from the i-th node of
\* G.nodes on: the heap after the generator is exhausted.
RECURSIVE MatchFromOn(_, _, _, _, _)
MatchFromOn(G, h, pat, seed, i) ==
    IF i > Len(G.nodes) THEN h
    ELSE LET nid == G.nodes[i]
             nodeOk == _node_ok(G, nid, pat.head)
             row == dict(h, seed)
             here ==
                 CASE nodeOk = FalseV -> h
                   [] nodeOk = TrueV ->
                        WalkChainOn(G, Stored(row.heap, row.id, pat.head.var, NodeRef(nid)),
                                    nid, pat.chain, row.id)
         IN  MatchFromOn(G, here, pat, seed, i + 1)

\* The seed row is the object 1 of the heap of a call.
SeedObject == 1

\* The inner loops of _match: partials for one pattern, from the i-th row of
\* results on.
RECURSIVE Partials(_, _, _, _)
Partials(G, pat, results, i) ==
    IF i > Len(results) THEN << >>
    ELSE _match_single(G, pat, results[i]) \o Partials(G, pat, results, i + 1)

\* The outer loop of _match over match.patterns, from the j-th pattern on.
RECURSIVE MatchLoop(_, _, _, _)
MatchLoop(G, patterns, results, j) ==
    IF j > Len(patterns) THEN results
    ELSE MatchLoop(G, patterns, Partials(G, patterns[j], results, 1), j + 1)

\* Cypher._match(match)
_match(G, match) == MatchLoop(G, match.patterns, << EmptyRow >>, 1)

-----------------------------------------------------------------------------
(* Expression evaluation (executor.py, "Expression evaluation")            *)

s_var == << "v", "a", "r" >>
s_prop == << "p", "r", "o", "p" >>
s_lit == << "l", "i", "t" >>
s_count_all == << "c", "o", "u", "n", "t", "_", "a", "l", "l" >>
s_bin == << "b", "i", "n" >>
s_un == << "u", "n" >>
s_count == << "c", "o", "u", "n", "t" >>
s_expr == << "e", "x", "p", "r" >>
s_sentinel == << "_", "_", "c", "o", "u", "n", "t", "_", "_" >>

\* x[i] for a constant index i >= 0.
Index(x, i) ==
    CASE x.k \in {"str", "tuple", "list"} ->
            IF i < Len(x.v)
            THEN (IF x.k = "str" THEN StrV(<< x.v[i + 1] >>) ELSE x.v[i + 1])
            ELSE Raise("IndexError")
      [] x.k = "dict" -> Raise("KeyError")
      [] x.k \in {"None", "int", "float", "bool", "set", "function"} ->
            Raise("TypeError")

\* "a, b, c = x" (n = 3) and the other fixed-length unpackings: the tuple of
\* the n elements, ValueError for another length, TypeError for an object
\* that cannot be iterated (a set or dict, whose order is arbitrary, is not
\* modelled).
Unpack(x, n) ==
    CASE x.k \in {"tuple", "list"} ->
            IF Len(x.v) = n THEN TupV(x.v) ELSE Raise("ValueError")
      [] x.k = "str" ->
            IF Len(x.v) = n THEN TupV([i \in 1..n |-> StrV(<< x.v[i] >>)])
            ELSE Raise("ValueError")
      [] x.k \in {"None", "int", "float", "bool", "function"} -> Raise("TypeError")

\* The part of _resolve after "val = row.get(...)", the same for a variable
\* reference (isProp = FALSE) and a property access (isProp = TRUE, which
\* adds ".get(attr)"): dereference the tagged reference val into the graph.
Deref(G, val, isProp, attr) ==
    IF IsRaise(val) THEN val
    ELSE IF val.k = "None" THEN NoneV
    ELSE LET v0 == Index(val, 0)
         IN  IF IsRaise(v0) THEN v0
             ELSE IF PyEq(v0, StrV(s_node))
             THEN LET nid == Index(val, 1)
                      data == IF IsRaise(nid) THEN nid ELSE G_nodes(G, nid)
                  IN  IF IsRaise(data) \/ ~isProp THEN data ELSE DictGet(data, attr)
             ELSE IF PyEq(v0, StrV(s_edge))
             THEN LET e == Index(val, 1)
                      uvk == IF IsRaise(e) THEN e ELSE Unpack(e, 3)
                      data == IF IsRaise(uvk) THEN uvk
                              ELSE get_edge_data(G, uvk.v[1], uvk.v[2], uvk.v[3])
                  IN  IF IsRaise(data) \/ ~isProp THEN data ELSE DictGet(data, attr)
             ELSE NoneV

\* Cypher._resolve(ref, row); ref is a non-empty tuple.
_resolve(G, ref, row) ==
    LET kind == Index(ref, 0)
    IN  IF PyEq(kind, StrV(s_var))
        THEN LET name == Index(ref, 1)
             IN  IF IsRaise(name) THEN name
                 ELSE Deref(G, RowGet(row, name), FALSE, NoneV)
        ELSE IF PyEq(kind, StrV(s_prop))
        THEN LET parts == Unpack(ref, 3)
             IN  IF IsRaise(parts) THEN parts
                 ELSE Deref(G, RowGet(row, parts.v[2]), TRUE, parts.v[3])
        ELSE IF PyEq(kind, StrV(s_lit)) THEN Index(ref, 1)
        ELSE IF PyEq(kind, StrV(s_count_all)) THEN TupV(<< StrV(s_sentinel) >>)
        ELSE NoneV

\* An evaluator that resolves every tuple and has null for the rest.
_eval_expr_null(G, expr, row) ==
    IF expr.k # "tuple" THEN NoneV ELSE _resolve(G, expr, row)

\* An evaluator whose AND and OR leave the right operand alone when the left
\* operand decides the result.
RECURSIVE _eval_expr_lazy(_, _, _)
_eval_expr_lazy(G, expr, row) ==
    IF expr.k # "tuple" THEN expr
    ELSE LET tag == Index(expr, 0)
         IN  IF IsRaise(tag) THEN tag
             ELSE IF \E known \in {s_var, s_prop, s_lit, s_count_all} :
                        PyEq(tag, StrV(known))
             THEN _resolve(G, expr, row)
             ELSE IF PyEq(tag, StrV(s_bin))
             THEN LET parts == Unpack(expr, 4)
                  IN  IF IsRaise(parts) THEN parts
                      ELSE LET av == _eval_expr_lazy(G, parts.v[3], row)
                           IN  IF IsRaise(av) THEN av
                               ELSE IF parts.v[2] = StrV(OpAnd) /\ ~Truthy(av)
                               THEN BoolV(FALSE)
                               ELSE IF parts.v[2] = StrV(OpOr) /\ Truthy(av)
                               THEN BoolV(TRUE)
                               ELSE LET bv == _eval_expr_lazy(G, parts.v[4], row)
                                    IN  IF IsRaise(bv) THEN bv
                                        ELSE BinOps(parts.v[2], av, bv)
             ELSE IF PyEq(tag, StrV(s_un))
             THEN LET parts == Unpack(expr, 3)
                  IN  IF IsRaise(parts) THEN parts
                      ELSE LET av == _eval_expr_lazy(G, parts.v[3], row)
                           IN  IF IsRaise(av) THEN av
                               ELSE UnOps(parts.v[2], av)
             ELSE expr

\* Cypher._eval_expr(expr, row)
RECURSIVE _eval_expr(_, _, _)
_eval_expr(G, expr, row) ==
    IF expr.k # "tuple" THEN expr
    ELSE LET tag == Index(expr, 0)
         IN  IF IsRaise(tag) THEN tag
             ELSE IF \E known \in {s_var, s_prop, s_lit, s_count_all} :
                        PyEq(tag, StrV(known))
             THEN _resolve(G, expr, row)
             ELSE IF PyEq(tag, StrV(s_bin))
             THEN LET parts == Unpack(expr, 4)
                  IN  IF IsRaise(parts) THEN parts
                      ELSE LET av == _eval_expr(G, parts.v[3], row)
                           IN  IF IsRaise(av) THEN av
                               ELSE LET bv == _eval_expr(G, parts.v[4], row)
                                    IN  IF IsRaise(bv) THEN bv
                                        ELSE BinOps(parts.v[2], av, bv)
             ELSE IF PyEq(tag, StrV(s_un))
             THEN LET parts == Unpack(expr, 3)
                  IN  IF IsRaise(parts) THEN parts
                      ELSE LET av == _eval_expr(G, parts.v[3], row)
                           IN  IF IsRaise(av) THEN av
                               ELSE UnOps(parts.v[2], av)
             ELSE expr

\* Cypher._truthy(v)
_truthy(v) == Truthy(v)

ReturnItem(expr, alias) == [expr |-> expr, alias |-> alias]
OrderItem(expr, desc) == [expr |-> expr, desc |-> desc]

\* Cypher._expr_name(expr)
_expr_name(expr) ==
    IF expr.k # "tuple" THEN StrV(s_expr)
    ELSE LET t == Index(expr, 0)
         IN  IF IsRaise(t) THEN t
             ELSE IF PyEq(t, StrV(s_prop))
             THEN LET a == Index(expr, 1)
                      b == Index(expr, 2)
                  IN  IF IsRaise(a) THEN a
                      ELSE IF IsRaise(b) THEN b
                      ELSE CASE a.k = "str" /\ b.k = "str" ->
                                StrV(a.v \o << "." >> \o b.v)
             ELSE IF PyEq(t, StrV(s_var)) THEN Index(expr, 1)
             ELSE IF PyEq(t, StrV(s_count_all)) THEN StrV(s_count)
             ELSE StrV(s_expr)

\* An assignment that keeps the value a key already has.
Assigned_keepFirst(out, key, val) ==
    IF IsRaise(val) THEN val
    ELSE IF IsRaise(key) THEN key
    ELSE CASE key.k = "str" ->
              IF key.v \in DOMAIN out.v THEN out ELSE DictV(Put(out.v, key.v, val))

\* "out[name] = val" of _project_row, where evaluating val or the name may
\* have raised.
Assigned(out, key, val) ==
    IF IsRaise(val) THEN val
    ELSE IF IsRaise(key) THEN key
    ELSE CASE key.k = "str" -> DictV(Put(out.v, key.v, val))

\* The loop of _project_row from the i-th item on; out is the dict so far,
\* or the exception that ended the loop.
RECURSIVE ProjectFrom(_, _, _, _, _)
ProjectFrom(G, items, row, out, i) ==
    IF IsRaise(out) \/ i > Len(items) THEN out
    ELSE ProjectFrom(G, items, row,
                     Assigned(out,
                              IF Truthy(items[i].alias) THEN items[i].alias
                              ELSE _expr_name(items[i].expr),
                              _eval_expr(G, items[i].expr, row)),
                     i + 1)

\* Cypher._project_row(items, row): the output dict, or the exception.
_project_row(G, items, row) == ProjectFrom(G, items, row, DictV(EmptyRow), 1)

-----------------------------------------------------------------------------
(* The algorithm registry (algorithms.py)                                  *)

s_path == << "p", "a", "t", "h" >>
s_dummy == << "d", "u", "m", "m", "y" >>

\* A registration under the name as given.
register_algorithm_verbatim(reg, name, func) == Put(reg, name, func)

\* register_algorithm(name, func): the registry after the call.
register_algorithm(reg, name, func) == Put(reg, Upper(name), func)

\* A lookup that falls back to BFS for an unknown name.
get_algorithm_default(reg, name) ==
    IF Upper(name) \in DOMAIN reg THEN reg[Upper(name)] ELSE FuncV("_bfs_impl")

\* get_algorithm(name): the registered function, or KeyError.
get_algorithm(reg, name) ==
    IF Upper(name) \in DOMAIN reg THEN reg[Upper(name)] ELSE Raise("KeyError")

\* The built-in registrations made when the module is imported, in order.
Registration(name, func) == [name |-> name, func |-> func]
Builtins ==
    << Registration(<< "K", "S", "H", "O", "R", "T", "E", "S", "T" >>,
                    FuncV("_kshortest_impl")),
       Registration(<< "B", "F", "S" >>, FuncV("_bfs_impl")),
       Registration(<< "A", "L", "L", "S", "H", "O", "R", "T", "E", "S", "T" >>,
                    FuncV("_allshortest_impl")),
       Registration(<< "W", "S", "H", "O", "R", "T", "E", "S", "T" >>,
                    FuncV("_wshortest_impl")) >>

RECURSIVE RegisterAll(_, _, _)
RegisterAll(reg, regs, i) ==
    IF i > Len(regs) THEN reg
    ELSE RegisterAll(register_algorithm(reg, regs[i].name, regs[i].func), regs, i + 1)

\* The registry after the module is imported.
BuiltinRegistry == RegisterAll(EmptyRow, Builtins, 1)

\* graph.neighbors(node): the successors of node, each once, in the order
\* the adjacency enumerates them.
neighbors(G, node) ==
    LET es == out_edges(G, node)
        first(i) == \A j \in 1..(i - 1) : ~PyEq(es[j].v, es[i].v)
        idx == {i \in 1..Len(es) : first(i)}
        RECURSIVE Pick(_)
        Pick(i) == IF i > Len(es) THEN << >>
                   ELSE (IF i \in idx THEN << es[i].v >> ELSE << >>) \o Pick(i + 1)
    IN  Pick(1)

\* The loop "for nbr in graph.neighbors(node)" of _bfs_impl from the i-th
\* neighbour on: the pair (visited, frontier) after it.
RECURSIVE BfsExpand(_, _, _, _, _)
BfsExpand(nbrs, path, visited, frontier, i) ==
    IF i > Len(nbrs) THEN << visited, frontier >>
    ELSE IF \E x \in visited : PyEq(x, nbrs[i])
    THEN BfsExpand(nbrs, path, visited, frontier, i + 1)
    ELSE BfsExpand(nbrs, path, visited \cup {nbrs[i]},
                   Append(frontier, << nbrs[i], path \o << nbrs[i] >> >>), i + 1)

\* The while loop of _bfs_impl.
RECURSIVE BfsLoop(_, _, _, _, _)
BfsLoop(G, depth, visited, frontier, result) ==
    IF Len(frontier) = 0 THEN result
    ELSE LET node == frontier[1][1]
             path == frontier[1][2]
             rest == Tail(frontier)
         IN  IF Len(path) - 1 > depth
             THEN BfsLoop(G, depth, visited, rest, result)
             ELSE LET vf == BfsExpand(neighbors(G, node), path, visited, rest, 1)
                  IN  BfsLoop(G, depth, vf[1], vf[2], Append(result, ListV(path)))

\* A breadth-first search that goes one level deeper than asked.
_bfs_impl_deeper(G, source, target, depth) ==
    ListV(BfsLoop(G, depth.v[1] + 1, {source}, << << source, << source >> >> >>, << >>))

\* _bfs_impl(graph, source, target, depth)
_bfs_impl(G, source, target, depth) ==
    ListV(BfsLoop(G, depth.v[1], {source}, << << source, << source >> >> >>, << >>))

\* The test doubles the tests register: fixed_algo returns [["a", "b"]] and
\* dummy_algo returns [["dummy"]], whatever the arguments.
fixed_algo(G, s, t, p) == ListV(<< ListV(<< StrV(<< "a" >>), StrV(<< "b" >>) >>) >>)
dummy_algo(G, s, t, p) == ListV(<< ListV(<< StrV(s_dummy) >>) >>)

\* algo(self.G, source, target, param) for a registered function object.
CallAlgo(func, G, source, target, param) ==
    CASE func.v = "_bfs_impl" -> _bfs_impl(G, source, target, param)
      [] func.v = "fixed_algo" -> fixed_algo(G, source, target, param)
      [] func.v = "dummy_algo" -> dummy_algo(G, source, target, param)

-----------------------------------------------------------------------------
(* Cypher.run (executor.py)                                                *)

Query(match, where, returns, order_by, skip, limit) ==
    [match |-> match, where |-> where, returns |-> returns,
     order_by |-> order_by, skip |-> skip, limit |-> limit]

\* A query text as run receives it: its characters, and what parser.parse
\* makes of it: << >> when the text is not in the grammar, << q >> for the
\* Query q it parses to.
QueryText(text, ast) == [text |-> text, ast |-> ast]

\* re.search(r"\*(?P<name>\w+)\|(\d+)", text) anchored at position i: "*",
\* a run of word characters, "|", a run of digits.  \w+ is greedy and "|" is
\* no word character, so only the whole run of word characters can be
\* followed by "|"; \d+ is greedy and takes the whole run of digits.
InClass(c, word) == IF word THEN IsWord(c) ELSE IsDigit(c)

\* The end of the run of characters of one class (\w for word, else \d) that
\* starts at position i: i - 1 when the run is empty.
RunEnd(text, i, word) ==
    CHOOSE j \in (i - 1)..Len(text) :
        /\ \A m \in i..j : InClass(text[m], word)
        /\ j = Len(text) \/ ~InClass(text[j + 1], word)

MatchAt(text, i) ==
    LET w == RunEnd(text, i + 1, TRUE)
        d == RunEnd(text, w + 2, FALSE)
    IN  IF /\ text[i] = "*"
           /\ w >= i + 1
           /\ w + 1 <= Len(text)
           /\ text[w + 1] = "|"
           /\ d >= w + 2
        THEN [found |-> TRUE, name |-> SubSeq(text, i + 1, w),
              digits |-> SubSeq(text, w + 2, d)]
        ELSE [found |-> FALSE, name |-> << >>, digits |-> << >>]

\* generic_algo_match: the leftmost match.
re_search(text) ==
    LET hits == {i \in 1..Len(text) : MatchAt(text, i).found}
    IN  IF hits = {} THEN [found |-> FALSE, name |-> << >>, digits |-> << >>]
        ELSE MatchAt(text, CHOOSE i \in hits : \A j \in hits : i <= j)

\* A call run makes, recorded in the order made.
Call(fn, args) == [fn |-> fn, args |-> args]

\* parser.parse(query)
ParseFails(query) == query.ast = << >>
parse(query) == query.ast[1]

\* "acc.append(x)" where computing x may have raised: the exception, or the
\* longer list (or tuple).
Appended(acc, x) == IF IsRaise(x) THEN x ELSE [k |-> acc.k, v |-> Append(acc.v, x)]

\* One row r through the filter and the projection, w being the value of the
\* WHERE expression on it: out with the projected row added, out unchanged
\* for a row the filter drops, or the exception.
Filtered(G, q, r, out, w) ==
    IF IsRaise(w) THEN w
    ELSE IF ~_truthy(w) THEN out
    ELSE Appended(out, _project_row(G, q.returns, r))

\* The generator "(r for r in rows if _truthy(_eval_expr(q.where, r)))"
\* consumed by "[_project_row(q.returns, r) for r in rows]", from the i-th
\* matched row on: each row is filtered and, if kept, projected before the
\* next row is looked at.  The list of output rows, or the first exception.
RECURSIVE FilterProject(_, _, _, _, _)
FilterProject(G, q, rows, out, i) ==
    IF IsRaise(out) \/ i > Len(rows) THEN out
    ELSE FilterProject(G, q, rows,
                       Filtered(G, q, rows[i], out,
                                IF q.where.k = "None" THEN TrueV
                                ELSE _eval_expr(G, q.where, rows[i])),
                       i + 1)

\* keyfn(row) of run: the tuple of the order expressions' values on the
\* projected row, from the i-th order item on, or the first exception.
RECURSIVE KeyFrom(_, _, _, _, _)
KeyFrom(G, order_by, row, acc, i) ==
    IF IsRaise(acc) \/ i > Len(order_by) THEN acc
    ELSE KeyFrom(G, order_by, row,
                 Appended(acc, _eval_expr(G, order_by[i].expr, row.v)), i + 1)

keyfn(G, order_by, row) == KeyFrom(G, order_by, row, TupV(<< >>), 1)

\* list.sort computes the keys of all rows first: the list of keys, or the
\* first exception.
RECURSIVE SortKeys(_, _, _, _, _)
SortKeys(G, order_by, rows, acc, i) ==
    IF IsRaise(acc) \/ i > Len(rows) THEN acc
    ELSE SortKeys(G, order_by, rows, Appended(acc, keyfn(G, order_by, rows[i])), i + 1)

Reverse(xs) == [i \in 1..Len(xs) |-> xs[Len(xs) + 1 - i]]

\* One insertion of a stable insertion sort: index i goes after every index
\* of perm whose key is not greater.
InsertIdx(keys, perm, i) ==
    LET later == {p \in 1..Len(perm) : Compare("<", keys[i], keys[perm[p]]) = TrueV}
        pos == IF later = {} THEN Len(perm) + 1
               ELSE CHOOSE p \in later : \A p2 \in later : p <= p2
    IN  SubSeq(perm, 1, pos - 1) \o << i >> \o SubSeq(perm, pos, Len(perm))

RECURSIVE SortPerm(_, _, _)
SortPerm(keys, perm, i) ==
    IF i > Len(keys) THEN perm ELSE SortPerm(keys, InsertIdx(keys, perm, i), i + 1)

\* The ascending stable sort of xs by keys (only "<" is used, as list.sort
\* does).
StableSort(keys, xs) ==
    LET perm == SortPerm(keys, << >>, 1)
    IN  [i \in 1..Len(xs) |-> xs[perm[i]]]

\* rows.sort(key=..., reverse=reverse) on the computed keys (an exception of
\* the key function is the sort's).  A comparison of
\* two keys that are not ordered raises TypeError; which pairs list.sort
\* compares is its own business, and the model raises when some pair is not
\* ordered.  With reverse, list.sort reverses the list, sorts it ascending
\* and reverses the result, which keeps rows of equal keys in their original
\* order.
list_sort(keys, xs, reverse) ==
    IF IsRaise(keys) THEN keys
    ELSE IF \E i, j \in 1..Len(keys.v) :
                i # j /\ IsRaise(Compare("<", keys.v[i], keys.v[j]))
    THEN Raise("TypeError")
    ELSE IF reverse
    THEN ListV(Reverse(StableSort(Reverse(keys.v), Reverse(xs))))
    ELSE ListV(StableSort(keys.v, xs))

\* A reverse flag that any descending item sets.
SortReverse_any(order_by) == \E i \in 1..Len(order_by) : order_by[i].desc

\* reverse = any(o.desc ...) and len(q.order_by) == 1 and q.order_by[0].desc
SortReverse(order_by) ==
    /\ \E i \in 1..Len(order_by) : order_by[i].desc
    /\ Len(order_by) = 1
    /\ order_by[1].desc

\* xs[start:] and xs[:stop] for an int start / stop.
SliceFrom(xs, start) ==
    LET n == Len(xs)
        lo == IF start < 0 THEN (IF n + start < 0 THEN 0 ELSE n + start)
              ELSE (IF start > n THEN n ELSE start)
    IN  SubSeq(xs, lo + 1, n)

SliceTo(xs, stop) ==
    LET n == Len(xs)
        hi == IF stop < 0 THEN (IF n + stop < 0 THEN 0 ELSE n + stop)
              ELSE (IF stop > n THEN n ELSE stop)
    IN  SubSeq(xs, 1, hi)

\* The "ORDER BY" step of run on the projected rows (not reached when the
\* projection raised): the list, or the exception.
OrderStep(G, q, rows) ==
    IF IsRaise(rows) \/ Len(q.order_by) = 0 THEN rows
    ELSE list_sort(SortKeys(G, q.order_by, rows.v, ListV(<< >>), 1), rows.v,
                   SortReverse(q.order_by))

\* A SKIP / LIMIT step that truncates before it skips.
SkipLimitStep_limitFirst(q, rows) ==
    LET limited == IF q.limit.k # "None" THEN SliceTo(rows, q.limit.v[1]) ELSE rows
    IN  IF q.skip.k # "None" THEN SliceFrom(limited, q.skip.v[1]) ELSE limited

\* The "SKIP / LIMIT" step of run.
SkipLimitStep(q, rows) ==
    LET skipped == IF q.skip.k # "None" THEN SliceFrom(rows, q.skip.v[1]) ELSE rows
    IN  IF q.limit.k # "None" THEN SliceTo(skipped, q.limit.v[1]) ELSE skipped

\* The "SKIP / LIMIT" step on the ordered rows (not reached when the sort
\* raised).
Sliced(q, rows) == IF IsRaise(rows) THEN rows ELSE ListV(SkipLimitStep(q, rows.v))

\* The normal query processing of run, after the parse.
RunQuery(G, q) ==
    Sliced(q, OrderStep(G, q, FilterProject(G, q, _match(G, q.match), ListV(<< >>), 1)))

\* "[{"path": p} for p in paths]"
PathRows(paths) ==
    CASE IsRaise(paths) -> paths
      [] paths.k \in {"list", "tuple"} ->
            ListV([i \in 1..Len(paths.v) |-> DictV(Put(EmptyRow, s_path, paths.v[i]))])

\* A guard that lets a graph of one node through.
TooFewNodes_empty(nodes) == Len(nodes) < 1

\* "if len(nodes) < 2: return iter([])"
TooFewNodes(nodes) == Len(nodes) < 2

\* "source = nodes[0]" and "target = nodes[-1]"
FirstNode(nodes) == nodes[1]
\* A target that is the second node of the enumeration.
LastNode_second(nodes) == nodes[2]

LastNode(nodes) == nodes[Len(nodes)]

\* iter(rows): an iterator over a list that exists already.  items are the
\* rows it has still to hand out; fail is the exception it raises when they
\* are used up (none for the iterator of a list, which then stops).
iter(rows) == [k |-> "list_iterator", items |-> rows, fail |-> NoneV]

\* A run that returns its iterator in every case and leaves the failure of
\* its body to the first next().
Deferred(r) ==
    IF IsRaise(r) THEN [k |-> "list_iterator", items |-> << >>, fail |-> r]
    ELSE iter(r.v)

\* The end of Cypher.run, r being the list its body built or the exception
\* its body raised: the exception leaves run, or run returns iter(rows).
Propagated(r) == IF IsRaise(r) THEN r ELSE iter(r.v)

\* Cypher.run(query) on graph G with the registry reg: what it returns (the
\* list its iterator yields) or raises, and the calls it makes on the way.
run(G, reg, query) ==
    LET generic_algo_match == re_search(query.text)
    IN  IF generic_algo_match.found
        THEN LET name == Upper(generic_algo_match.name)
                 param == IntV(ParseInt(generic_algo_match.digits))
                 nodes == G.nodes
             IN  IF TooFewNodes(nodes) THEN [out |-> ListV(<< >>), calls |-> << >>]
                 ELSE LET source == FirstNode(nodes)
                          target == LastNode(nodes)
                          algo == get_algorithm(reg, name)
                          c1 == << Call("get_algorithm", << StrV(name) >>) >>
                      IN  IF IsRaise(algo) THEN [out |-> algo, calls |-> c1]
                          ELSE [out |-> PathRows(CallAlgo(algo, G, source, target, param)),
                                calls |-> Append(c1, Call("algo", << algo, source, target,
                                                                     param >>))]
        ELSE LET c1 == << Call("parse", << StrV(query.text) >>) >>
             IN  IF ParseFails(query) THEN [out |-> Raise("ParseError"), calls |-> c1]
                 ELSE [out |-> RunQuery(G, parse(query)),
                       calls |-> Append(c1, Call("_match", << >>))]

-----------------------------------------------------------------------------
(* The graphs, patterns and queries the operations are applied to          *)

k_name == << "n", "a", "m", "e" >>
k_age == << "a", "g", "e" >>
k_since == << "s", "i", "n", "c", "e" >>
k_boss == << "b", "o", "s", "s" >>
Person == << "P", "e", "r", "s", "o", "n" >>
Admin == << "A", "d", "m", "i", "n" >>
KNOWS == << "K", "N", "O", "W", "S" >>
FRIEND == << "F", "R", "I", "E", "N", "D" >>
Alice == << "A", "l", "i", "c", "e" >>
Bob == << "B", "o", "b" >>
Carol == << "C", "a", "r", "o", "l" >>
v_a == << "a" >>
v_b == << "b" >>
v_r == << "r" >>
v_m == << "m" >>
v_n == << "n" >>
c_src == << "s", "r", "c" >>
c_dst == << "d", "s", "t" >>

\* The attribute dict of a Person node, and of a Person node with a "boss"
\* attribute holding a node reference.
PersonData(name, age) ==
    Put(Put(Put(EmptyRow, s_labels, SetV({StrV(Person)})), k_name, StrV(name)),
        k_age, IntV(age))
BossData(name, age, boss) == Put(PersonData(name, age), k_boss, NodeRef(IntV(boss)))

\* The attribute dict of an edge with a type and a "since" attribute.
EdgeData(type, since) == Put(Put(EmptyRow, s_type, StrV(type)), k_since, IntV(since))
Edge(u, v, key, data) == [u |-> u, v |-> v, key |-> key, data |-> data]

\* The graph of test_simple_match_where_return.
GPeople ==
    [multi |-> TRUE,
     nodes |-> << IntV(1), IntV(2), IntV(3) >>,
     ndata |-> << PersonData(Alice, 35), PersonData(Bob, 29), PersonData(Carol, 40) >>,
     edges |-> << Edge(IntV(1), IntV(2), IntV(0), EdgeData(KNOWS, 2020)),
                  Edge(IntV(1), IntV(3), IntV(0), EdgeData(KNOWS, 2010)) >>]

\* The same nodes and edges added in the opposite order.
GPeopleRev ==
    [multi |-> TRUE,
     nodes |-> << IntV(3), IntV(2), IntV(1) >>,
     ndata |-> << PersonData(Carol, 40), PersonData(Bob, 29), PersonData(Alice, 35) >>,
     edges |-> << Edge(IntV(1), IntV(3), IntV(0), EdgeData(KNOWS, 2010)),
                  Edge(IntV(1), IntV(2), IntV(0), EdgeData(KNOWS, 2020)) >>]

\* A MultiDiGraph whose nodes carry a node reference as an attribute, two of
\* them to the same node, with a pair of parallel edges, one without a
\* "since" attribute.
GBoss ==
    [multi |-> TRUE,
     nodes |-> << IntV(1), IntV(2), IntV(3) >>,
     ndata |-> << BossData(Alice, 40, 3), BossData(Bob, 29, 1), BossData(Carol, 29, 3) >>,
     edges |-> << Edge(IntV(1), IntV(2), IntV(0), EdgeData(KNOWS, 2020)),
                  Edge(IntV(1), IntV(2), IntV(1), Put(EmptyRow, s_type, StrV(FRIEND))),
                  Edge(IntV(1), IntV(3), IntV(0), EdgeData(KNOWS, 2010)) >>]

\* A DiGraph: a node without attributes, a node whose "age" is None, and an
\* edge without attributes.
GPlain ==
    [multi |-> FALSE,
     nodes |-> << StrV(<< "a" >>), StrV(<< "b" >>), StrV(<< "c" >>) >>,
     ndata |-> << EmptyRow,
                  Put(Put(EmptyRow, s_labels, SetV({StrV(Person), StrV(Admin)})),
                      k_age, NoneV),
                  PersonData(Carol, 29) >>,
     edges |-> << Edge(StrV(<< "a" >>), StrV(<< "b" >>), NoneV, EmptyRow),
                  Edge(StrV(<< "a" >>), StrV(<< "c" >>), NoneV, EdgeData(KNOWS, 2020)),
                  Edge(StrV(<< "b" >>), StrV(<< "c" >>), NoneV,
                       Put(EmptyRow, k_since, NoneV)) >>]

\* The graphs of the algorithm tests: no node; one node; "a" -> "b"; the line
\* a-b-c-d with the shortcut a-d.
GEmpty == [multi |-> TRUE, nodes |-> << >>, ndata |-> << >>, edges |-> << >>]
GOne ==
    [multi |-> TRUE, nodes |-> << StrV(<< "a" >>) >>, ndata |-> << EmptyRow >>,
     edges |-> << >>]
GTwo ==
    [multi |-> TRUE,
     nodes |-> << StrV(<< "a" >>), StrV(<< "b" >>) >>,
     ndata |-> << EmptyRow, EmptyRow >>,
     edges |-> << Edge(StrV(<< "a" >>), StrV(<< "b" >>), IntV(0), EmptyRow) >>]
GLine ==
    [multi |-> TRUE,
     nodes |-> << StrV(<< "a" >>), StrV(<< "b" >>), StrV(<< "c" >>), StrV(<< "d" >>) >>,
     ndata |-> << EmptyRow, EmptyRow, EmptyRow, EmptyRow >>,
     edges |-> << Edge(StrV(<< "a" >>), StrV(<< "b" >>), IntV(0), EmptyRow),
                  Edge(StrV(<< "a" >>), StrV(<< "d" >>), IntV(0), EmptyRow),
                  Edge(StrV(<< "b" >>), StrV(<< "c" >>), IntV(0), EmptyRow),
                  Edge(StrV(<< "c" >>), StrV(<< "d" >>), IntV(0), EmptyRow) >>]

DispatchGraphs == {GEmpty, GOne, GTwo, GLine}
QueryGraphs == {GPeople, GPeopleRev, GBoss}
MatchGraphs == {GPeople, GBoss, GPlain, GOne}

\* Expressions of the AST, as the parser builds them.
Var(name) == TupV(<< StrV(s_var), StrV(name) >>)
Prop(var, attr) == TupV(<< StrV(s_prop), StrV(var), StrV(attr) >>)
Lit(val) == TupV(<< StrV(s_lit), val >>)
Bin(op, a, b) == TupV(<< StrV(s_bin), StrV(op), a, b >>)

Labels(S) == TupV(S)
NoProps == DictV(EmptyRow)
Props(key, val) == DictV(Put(EmptyRow, key, val))

NodePatterns ==
    {NodePattern(var, Labels(ls), ps) :
        var \in {NoneV, StrV(v_a)},
        ls \in {<< >>, << StrV(Person) >>, << StrV(Person), StrV(Admin) >>},
        ps \in {NoProps, Props(k_age, IntV(29)), Props(k_age, FloatV(<< 29, 1 >>)),
                Props(k_age, NoneV), Props(k_name, StrV(Carol))}}

RelPatterns ==
    {RelPattern(var, Labels(ts), ps) :
        var \in {NoneV, StrV(v_r)},
        ts \in {<< >>, << StrV(KNOWS) >>, << StrV(FRIEND), StrV(KNOWS) >>},
        ps \in {NoProps, Props(k_since, IntV(2020)), Props(k_since, NoneV)}}

AnyNode(var) == NodePattern(var, Labels(<< >>), NoProps)
PersonNode(var) == NodePattern(var, Labels(<< StrV(Person) >>), NoProps)
KnowsRel(var) == RelPattern(var, Labels(<< StrV(KNOWS) >>), NoProps)

\* (a:Person)-[r:KNOWS]->(b:Person)
KnowsPattern ==
    Pattern(PersonNode(StrV(v_a)),
            << PatternElementChain(KnowsRel(StrV(v_r)), PersonNode(StrV(v_b))) >>)

\* The patterns _match joins: (a), (a:Person), (b:Person), (:Person),
\* (a:Person)-[r:KNOWS]->(b:Person), (b)-[r]->(a).
Patterns ==
    {Pattern(AnyNode(StrV(v_a)), << >>),
     Pattern(PersonNode(StrV(v_a)), << >>),
     Pattern(PersonNode(StrV(v_b)), << >>),
     Pattern(PersonNode(NoneV), << >>),
     KnowsPattern,
     Pattern(AnyNode(StrV(v_b)),
             << PatternElementChain(RelPattern(StrV(v_r), Labels(<< >>), NoProps),
                                    AnyNode(StrV(v_a))) >>)}

\* The seed rows of _match_single: the empty row of the first pattern, and
\* rows of an earlier pattern that bind a, and a and r.
Seeds ==
    {EmptyRow,
     Put(EmptyRow, v_a, NodeRef(IntV(1))),
     Put(Put(EmptyRow, v_a, NodeRef(IntV(3))), v_r, EdgeRef(IntV(1), IntV(3), IntV(0)))}

\* (a)-[r]->(b)-[r]->(a): every step binds a variable that is bound already.
TwoSteps ==
    Pattern(AnyNode(StrV(v_a)),
            << PatternElementChain(RelPattern(StrV(v_r), Labels(<< >>), NoProps),
                                   AnyNode(StrV(v_b))),
               PatternElementChain(RelPattern(StrV(v_r), Labels(<< >>), NoProps),
                                   AnyNode(StrV(v_a))) >>)

\* The clauses of the queries run executes.
Matches == {Match(<< Pattern(PersonNode(StrV(v_a)), << >>) >>), Match(<< KnowsPattern >>)}
Wheres == {NoneV, Bin(OpGt, Prop(v_a, k_age), Lit(FloatV(<< 30, 1 >>)))}
Returns ==
    {<< ReturnItem(Prop(v_a, k_name), StrV(c_src)),
        ReturnItem(Prop(v_b, k_name), StrV(c_dst)) >>,
     << ReturnItem(Prop(v_a, k_boss), StrV(v_m)),
        ReturnItem(Prop(v_a, k_name), StrV(c_src)) >>,
     << ReturnItem(Prop(v_a, k_age), StrV(v_n)) >>}
OrderExprs == {Var(c_src), Var(c_dst), Var(v_n), Prop(v_m, k_age)}
OrderPairs == {<< Prop(v_m, k_age), Var(c_src) >>, << Var(c_src), Prop(v_m, k_age) >>}
OrderBys ==
    {<< >>}
    \cup {<< OrderItem(e, d) >> : e \in OrderExprs, d \in BOOLEAN}
    \cup {<< OrderItem(es[1], d1), OrderItem(es[2], d2) >> :
             es \in OrderPairs, d1 \in BOOLEAN, d2 \in BOOLEAN}

\* The largest SKIP and LIMIT count of a query.
MaxSkip == 2
MaxLimit == 2
Skips == {NoneV} \cup {IntV(n) : n \in 0..MaxSkip}
Limits == {NoneV} \cup {IntV(n) : n \in 0..MaxLimit}

Queries ==
    {Query(m, w, r, o, s, l) :
        m \in Matches, w \in Wheres, r \in Returns, o \in OrderBys,
        s \in Skips, l \in Limits}

\* The text of a query without an inline algorithm token.
PlainText == << "M", "A", "T", "C", "H" >>

\* Query texts around the inline token "*NAME|INTEGER": two pieces in a row,
\* each the empty text, a separator, a whole token or a part of one.
Pieces ==
    {<< >>, << "*" >>, << "|" >>, << "x" >>, << "1" >>, << " " >>,
     << "*", "b", "f", "s", "|", "1" >>,
     << "*", "B", "F", "S", "|", "2" >>,
     << "*", "f", "i", "x", "|", "0" >>,
     << "*", "z", "z", "|", "3" >>,
     << "*", "b", "f", "s" >>,
     << "|", "2" >>}
Texts == {a \o b : a \in Pieces, b \in Pieces}

\* MATCH (a:Person) RETURN a.name AS src
SimpleQuery ==
    Query(Match(<< Pattern(PersonNode(StrV(v_a)), << >>) >>), NoneV,
          << ReturnItem(Prop(v_a, k_name), StrV(c_src)) >>, << >>, NoneV, NoneV)

\* What run is given: each text with both outcomes of the parse.
QueryTexts == {QueryText(t, ast) : t \in Texts, ast \in {<< >>, << SimpleQuery >>}}

\* The queries whose rows fail: WHERE a.name > 30 (TypeError on the first
\* row), RETURN 1 / (a.age - 29) (ZeroDivisionError on the row of Bob),
\* ORDER BY n on the integer column n (TypeError); and their sound variants.
FailWheres == {NoneV, Bin(OpGt, Prop(v_a, k_age), Lit(FloatV(<< 30, 1 >>))),
               Bin(OpGt, Prop(v_a, k_name), Lit(IntV(30)))}
FailReturns ==
    {<< ReturnItem(Prop(v_a, k_name), StrV(c_src)) >>,
     << ReturnItem(Prop(v_a, k_age), StrV(v_n)) >>,
     << ReturnItem(Bin(OpDiv, Lit(IntV(1)),
                       Bin(OpSub, Prop(v_a, k_age), Lit(IntV(29)))), StrV(v_n)) >>}
FailOrderBys == {<< >>, << OrderItem(Var(c_src), FALSE) >>, << OrderItem(Var(v_n), FALSE) >>}
FailQueries ==
    {Query(m, w, r, o, NoneV, NoneV) :
        m \in Matches, w \in FailWheres, r \in FailReturns, o \in FailOrderBys}

\* The texts with an inline token of a registered and of an unknown name,
\* and the plain text, unparsable or parsed to one of the queries.
RunTexts ==
    {QueryText(t, ast) :
        t \in {<< "*", "b", "f", "s", "|", "1" >>, << "*", "z", "z", "|", "3" >>},
        ast \in {<< >>, << SimpleQuery >>}}
    \cup {QueryText(PlainText, << >>)}
    \cup {QueryText(PlainText, << q >>) : q \in FailQueries}
RunGraphs == {GPeople, GBoss, GLine}

\* The calls register_algorithm is given: the test double of
\* test_generic_algo_query_uses_registered_algorithm, another function under
\* a case variant of its name, and a replacement of the built-in BFS.
RegCalls ==
    {Registration(<< "f", "i", "x" >>, FuncV("fixed_algo")),
     Registration(<< "F", "i", "x" >>, FuncV("dummy_algo")),
     Registration(<< "b", "f", "s" >>, FuncV("dummy_algo"))}

\* The names get_algorithm is given.
LookupNames ==
    {<< "f", "i", "x" >>, << "F", "I", "X" >>, << "B", "f", "s" >>,
     << "b", "f", "s" >>, << "z", "z" >>,
     << "k", "s", "h", "o", "r", "t", "e", "s", "t" >>}

\* The number of register_algorithm calls after the built-in registrations.
MaxRegs == 2

-----------------------------------------------------------------------------
(* The path-finding built-ins of algorithms.py and the networkx functions   *)
(* they call.  A path is a list of node identifiers.                        *)

\* "for u, v in G.edges(node)": the head of every out-edge of node, in
\* enumeration order; on a MultiDiGraph a neighbour appears once per
\* parallel edge.
EdgeHeads(G, node) ==
    LET es == out_edges(G, node)
    IN  [i \in 1..Len(es) |-> es[i].v]

HasNode(G, n) == \E i \in 1..Len(G.nodes) : PyEq(G.nodes[i], n)

\* The depth-first enumeration of nx.all_simple_paths below the path
\* visited, from the i-th out-edge of its last node on: a child already on
\* the path is skipped, the target ends a path, any other child is
\* descended into.
RECURSIVE SimpleFrom(_, _, _, _)
SimpleFrom(G, visited, target, i) ==
    IF i > Len(EdgeHeads(G, visited[Len(visited)])) THEN << >>
    ELSE (IF \E j \in 1..Len(visited) :
                PyEq(visited[j], EdgeHeads(G, visited[Len(visited)])[i])
          THEN << >>
          ELSE IF PyEq(EdgeHeads(G, visited[Len(visited)])[i], target)
          THEN << ListV(Append(visited, target)) >>
          ELSE SimpleFrom(G, Append(visited, EdgeHeads(G, visited[Len(visited)])[i]),
                          target, 1))
         \o SimpleFrom(G, visited, target, i + 1)

\* list(nx.all_simple_paths(graph, source, target)).  When source is target,
\* networkx yields nothing or the single-node path, depending on its
\* version (selfPath).
all_simple_paths(G, source, target, selfPath) ==
    IF ~HasNode(G, source) \/ ~HasNode(G, target) THEN Raise("NodeNotFound")
    ELSE IF PyEq(source, target)
    THEN ListV(IF selfPath THEN << ListV(<< source >>) >> ELSE << >>)
    ELSE ListV(SimpleFrom(G, << source >>, target, 1))

\* "paths.sort(key=len)" and "return paths[:k]" on the enumerated paths.
ShortestFirst(paths, k) ==
    IF IsRaise(paths) THEN paths
    ELSE ListV(SliceTo(StableSort([i \in 1..Len(paths.v) |-> IntV(Len(paths.v[i].v))],
                                  paths.v),
                       k.v[1]))

\* _kshortest_impl(graph, source, target, k)
_kshortest_impl(G, source, target, k, selfPath) ==
    ShortestFirst(all_simple_paths(G, source, target, selfPath), k)

\* An edge without attributes, and one with a weight.
PlainEdge(u, v, key) == Edge(StrV(u), StrV(v), IntV(key), EmptyRow)

\* Parallel edges: a -> b three times, and a -> c -> b.
GParallel ==
    [multi |-> TRUE,
     nodes |-> << StrV(<< "a" >>), StrV(<< "b" >>), StrV(<< "c" >>) >>,
     ndata |-> << EmptyRow, EmptyRow, EmptyRow >>,
     edges |-> << PlainEdge(<< "a" >>, << "b" >>, 0),
                  PlainEdge(<< "a" >>, << "b" >>, 1),
                  PlainEdge(<< "a" >>, << "b" >>, 2),
                  PlainEdge(<< "a" >>, << "c" >>, 0),
                  PlainEdge(<< "c" >>, << "b" >>, 0) >>]

\* A cycle a -> b -> c -> a with a chord a -> c, and a node d nothing leads
\* to.
GCycle ==
    [multi |-> TRUE,
     nodes |-> << StrV(<< "a" >>), StrV(<< "b" >>), StrV(<< "c" >>), StrV(<< "d" >>) >>,
     ndata |-> << EmptyRow, EmptyRow, EmptyRow, EmptyRow >>,
     edges |-> << PlainEdge(<< "a" >>, << "b" >>, 0),
                  PlainEdge(<< "a" >>, << "c" >>, 0),
                  PlainEdge(<< "b" >>, << "c" >>, 0),
                  PlainEdge(<< "c" >>, << "a" >>, 0),
                  PlainEdge(<< "d" >>, << "a" >>, 0) >>]

s_weight == << "w", "e", "i", "g", "h", "t" >>

\* The weight function of nx.dijkstra_path for the edges from v to u: the
\* "weight" attribute, 1 for an edge without one, and on a multigraph the
\* least weight of the parallel edges.
EdgeCost(e) == IF s_weight \in DOMAIN e.data THEN e.data[s_weight].v[1] ELSE 1
EdgeWeight(G, v, u) ==
    LET costs == {EdgeCost(G.edges[i]) : i \in {j \in 1..Len(G.edges) :
                      PyEq(G.edges[j].u, v) /\ PyEq(G.edges[j].v, u)}}
    IN  CHOOSE c \in costs : \A c2 \in costs : c <= c2

\* The entry heappop takes from the fringe: the least (distance, counter,
\* node).
HeapTop(fringe) ==
    CHOOSE x \in fringe : \A y \in fringe : x[1] < y[1] \/ (x[1] = y[1] /\ x[2] <= y[2])

\* The search state of networkx's Dijkstra: the final distances, the
\* tentative distances seen, the path to each node seen, the fringe and the
\* push counter; err is set by "Contradictory paths found".
Search(dist, seen, paths, fringe, c, err) ==
    [dist |-> dist, seen |-> seen, paths |-> paths, fringe |-> fringe, c |-> c,
     err |-> err]

\* The loop "for u, e in G_succ[v].items()" from the i-th neighbour of v on.
RECURSIVE Relax(_, _, _, _), Relaxed(_, _, _, _)
Relax(G, st, v, i) ==
    IF st.err \/ i > Len(neighbors(G, v)) THEN st
    ELSE Relax(G, Relaxed(G, st, v, neighbors(G, v)[i]), v, i + 1)

\* One neighbour u of v: a final distance is checked, a new or shorter
\* tentative distance is recorded with its path and pushed.
Relaxed(G, st, v, u) ==
    IF u \in DOMAIN st.dist
    THEN (IF st.dist[v] + EdgeWeight(G, v, u) < st.dist[u]
          THEN [st EXCEPT !.err = TRUE] ELSE st)
    ELSE IF u \notin DOMAIN st.seen \/ st.dist[v] + EdgeWeight(G, v, u) < st.seen[u]
    THEN Search(st.dist,
                Put(st.seen, u, st.dist[v] + EdgeWeight(G, v, u)),
                Put(st.paths, u, Append(st.paths[v], u)),
                st.fringe \cup {<< st.dist[v] + EdgeWeight(G, v, u), st.c, u >>},
                st.c + 1, FALSE)
    ELSE st

\* The loop "while fringe": pop the nearest node, skip it when its distance
\* is final, stop at the target, relax its out-edges otherwise.
RECURSIVE DijkstraLoop(_, _, _)
DijkstraLoop(G, target, st) ==
    IF st.err \/ st.fringe = {} THEN st
    ELSE IF HeapTop(st.fringe)[3] \in DOMAIN st.dist
    THEN DijkstraLoop(G, target, [st EXCEPT !.fringe = @ \ {HeapTop(st.fringe)}])
    ELSE IF PyEq(HeapTop(st.fringe)[3], target)
    THEN [st EXCEPT !.dist = Put(@, target, HeapTop(st.fringe)[1])]
    ELSE DijkstraLoop(G, target,
             Relax(G, [st EXCEPT !.dist = Put(@, HeapTop(st.fringe)[3],
                                              HeapTop(st.fringe)[1]),
                                 !.fringe = @ \ {HeapTop(st.fringe)}],
                   HeapTop(st.fringe)[3], 1))

\* The path of a finished search, or the exception.
FoundPath(st, target) ==
    IF st.err THEN Raise("ValueError")
    ELSE IF target \in DOMAIN st.dist THEN ListV(st.paths[target])
    ELSE Raise("NetworkXNoPath")

\* nx.dijkstra_path(graph, source, target)
dijkstra_path(G, source, target) ==
    IF ~HasNode(G, source) THEN Raise("NodeNotFound")
    ELSE IF PyEq(source, target) THEN ListV(<< source >>)
    ELSE FoundPath(DijkstraLoop(G, target,
                       Search(EmptyRow, Put(EmptyRow, source, 0),
                              Put(EmptyRow, source, << source >>),
                              {<< 0, 0, source >>}, 1, FALSE)),
                   target)

\* "return [path]", and "except nx.NetworkXNoPath: return []".
WrapPath(path) ==
    IF IsRaise(path) THEN (IF path = Raise("NetworkXNoPath") THEN ListV(<< >>) ELSE path)
    ELSE ListV(<< path >>)

\* A _wshortest_impl without the except clause.
_wshortest_impl_uncaught(G, source, target, param) ==
    IF IsRaise(dijkstra_path(G, source, target)) THEN dijkstra_path(G, source, target)
    ELSE ListV(<< dijkstra_path(G, source, target) >>)

\* _wshortest_impl(graph, source, target, _)
_wshortest_impl(G, source, target, param) == WrapPath(dijkstra_path(G, source, target))

WeightedEdge(u, v, key, w) ==
    Edge(StrV(u), StrV(v), IntV(key), Put(EmptyRow, s_weight, IntV(w)))

\* The graph of test_wshortest_algorithm.
GWeighted ==
    [multi |-> TRUE,
     nodes |-> << StrV(<< "a" >>), StrV(<< "b" >>), StrV(<< "c" >>), StrV(<< "d" >>) >>,
     ndata |-> << EmptyRow, EmptyRow, EmptyRow, EmptyRow >>,
     edges |-> << WeightedEdge(<< "a" >>, << "b" >>, 0, 1),
                  WeightedEdge(<< "a" >>, << "d" >>, 0, 10),
                  WeightedEdge(<< "b" >>, << "c" >>, 0, 1),
                  WeightedEdge(<< "c" >>, << "d" >>, 0, 1) >>]

\* Parallel edges of different weights, an edge of weight 0, an edge without
\* a weight, a cycle, and a node d nothing leads to.
GWeights ==
    [multi |-> TRUE,
     nodes |-> << StrV(<< "a" >>), StrV(<< "b" >>), StrV(<< "c" >>), StrV(<< "d" >>) >>,
     ndata |-> << EmptyRow, EmptyRow, EmptyRow, EmptyRow >>,
     edges |-> << WeightedEdge(<< "a" >>, << "b" >>, 0, 5),
                  WeightedEdge(<< "a" >>, << "b" >>, 1, 2),
                  PlainEdge(<< "a" >>, << "c" >>, 0),
                  WeightedEdge(<< "b" >>, << "a" >>, 0, 1),
                  WeightedEdge(<< "c" >>, << "b" >>, 0, 0),
                  WeightedEdge(<< "d" >>, << "c" >>, 0, 3) >>]

MaxParam == 3
Params == 0..MaxParam
AlgoGraphs == {GLine, GParallel, GCycle, GWeighted, GWeights}

\* The count-all marker, the expressions of RETURN items (a.name, a.age,
\* b.name, a, count(*), a literal, and a.name + 1, which raises TypeError),
\* their aliases (none, "src", and the empty string) and the item lists.
CountAll == TupV(<< StrV(s_count_all) >>)
ItemExprs ==
    {Prop(v_a, k_name), Prop(v_a, k_age), Prop(v_b, k_name), Var(v_a), CountAll,
     Lit(IntV(5)), Bin(OpAdd, Prop(v_a, k_name), Lit(IntV(1)))}
Aliases == {NoneV, StrV(c_src), StrV(<< >>)}
ReturnItems == {ReturnItem(e, a) : e \in ItemExprs, a \in Aliases}
MaxItems == 2
ItemLists == UNION {[1..n -> ReturnItems] : n \in 1..MaxItems}

\* The expressions given to _eval_expr: operands (literals 1, 0 and None,
\* a.name, b, and 1 / 0, which raises ZeroDivisionError), the count-all
\* marker, every binary and unary operation on operands, and values that are
\* not expressions (scalars, a list, tuples with no tag or an unknown tag).
Un(op, a) == TupV(<< StrV(s_un), StrV(op), a >>)
Operands ==
    {Lit(IntV(1)), Lit(IntV(0)), Lit(NoneV), Prop(v_a, k_name), Var(v_b),
     Bin(OpDiv, Lit(IntV(1)), Lit(IntV(0)))}
BinOpNames ==
    {OpEq, OpNe, OpLt, OpLe, OpGt, OpGe, OpAdd, OpSub, OpMul, OpDiv, OpMod, OpAnd, OpOr}
UnOpNames == {OpSub, OpNot}
Unsupported ==
    {IntV(7), StrV(c_src), NoneV, ListV(<< StrV(s_lit), IntV(1) >>),
     TupV(<< StrV(s_dummy), IntV(1) >>), TupV(<< IntV(1), IntV(2) >>), TupV(<< >>)}
EvalExprs ==
    Operands \cup {CountAll} \cup Unsupported
    \cup {Bin(o, x, y) : o \in BinOpNames, x \in Operands, y \in Operands}
    \cup {Un(o, x) : o \in UnOpNames, x \in Operands}

\* The binding rows _match yields for (a)-[r]->(b) and for (a) on GPeople.
BindingRows ==
    {Put(Put(Put(EmptyRow, v_a, NodeRef(IntV(1))), v_r,
             EdgeRef(IntV(1), IntV(2), IntV(0))), v_b, NodeRef(IntV(2))),
     Put(EmptyRow, v_a, NodeRef(IntV(3)))}
EvalGraphs == {GPeople}

-----------------------------------------------------------------------------
(* The state machine: a Cypher engine on a graph G, the module-level        *)
(* registry of algorithms.py, and one call at a time on either.             *)

VARIABLES
    G,          \* Cypher.G, the graph the engine was constructed on
    registry,   \* algorithms._registry
    regLog,     \* history: the registrations made so far, in order
    pc,         \* "idle", "done" (a call returned) or "again" (it was repeated)
    op,         \* the operation last called
    arg,        \* its argument
    ret,        \* what it returned or raised
    ret2,       \* what the repeated call returned or raised
    calls,      \* the calls run made on the way
    handed      \* the rows the caller has taken from the iterator run returned

vars == << G, registry, regLog, pc, op, arg, ret, ret2, calls, handed >>

\* The state after "import nxcypher" and Cypher(graph).
InitOn(graphs) ==
    /\ G \in graphs
    /\ registry = BuiltinRegistry
    /\ regLog = Builtins
    /\ pc = "idle"
    /\ op = "none"
    /\ arg = NoneV
    /\ ret = NoneV
    /\ ret2 = NoneV
    /\ calls = << >>
    /\ handed = << >>

Init == InitOn(DispatchGraphs)
InitQuery == InitOn(QueryGraphs)
InitMatch == InitOn(MatchGraphs)

\* register_algorithm(name, func)
Register(name, func) ==
    /\ pc = "idle"
    /\ Len(regLog) < Len(Builtins) + MaxRegs
    /\ registry' = register_algorithm(registry, name, func)
    /\ regLog' = Append(regLog, Registration(name, func))
    /\ UNCHANGED << G, pc, op, arg, ret, ret2, calls, handed >>

\* get_algorithm(name)
GetAlgorithm(name) ==
    /\ pc = "idle"
    /\ pc' = "done"
    /\ op' = "get_algorithm"
    /\ arg' = StrV(name)
    /\ ret' = get_algorithm(registry, name)
    /\ UNCHANGED << G, registry, regLog, ret2, calls, handed >>

\* Cypher.run(query), its iterator consumed.
Run(query) ==
    /\ pc = "idle"
    /\ pc' = "done"
    /\ op' = "run"
    /\ arg' = query
    /\ \E r \in {run(G, registry, query)} : ret' = r.out /\ calls' = r.calls
    /\ UNCHANGED << G, registry, regLog, ret2, handed >>

\* The same query run again on the same graph.
RunAgain ==
    /\ pc = "done"
    /\ op = "run"
    /\ pc' = "again"
    /\ ret2' = run(G, registry, arg).out
    /\ UNCHANGED << G, registry, regLog, op, arg, ret, calls, handed >>

\* Cypher._node_ok(nid, npat) for the i-th node of the graph.
NodeOk(i, npat) ==
    /\ pc = "idle"
    /\ pc' = "done"
    /\ op' = "_node_ok"
    /\ arg' = [nid |-> G.nodes[i], npat |-> npat]
    /\ ret' = _node_ok(G, G.nodes[i], npat)
    /\ UNCHANGED << G, registry, regLog, ret2, calls, handed >>

\* Cypher._rel_ok(u, v, key, rpat) for the i-th edge of the graph, with the
\* key _walk_chain passes for it.
RelOk(i, rpat) ==
    /\ pc = "idle"
    /\ pc' = "done"
    /\ op' = "_rel_ok"
    /\ arg' = [u |-> G.edges[i].u, v |-> G.edges[i].v,
               key |-> EdgeKey(G, G.edges[i]), rpat |-> rpat]
    /\ ret' = _rel_ok(G, G.edges[i].u, G.edges[i].v, EdgeKey(G, G.edges[i]), rpat)
    /\ UNCHANGED << G, registry, regLog, ret2, calls, handed >>

\* list(Cypher._match(Match([p1, p2])))
MatchPatterns(p1, p2) ==
    /\ pc = "idle"
    /\ pc' = "done"
    /\ op' = "_match"
    /\ arg' = Match(<< p1, p2 >>)
    /\ ret' = LET rows == _match(G, Match(<< p1, p2 >>))
              IN  ListV([i \in 1..Len(rows) |-> DictV(rows[i])])
    /\ UNCHANGED << G, registry, regLog, ret2, calls, handed >>

\* The caller takes the result; the engine and the registry are ready for
\* the next call.
Return ==
    /\ pc \in {"done", "again"}
    /\ pc' = "idle"
    /\ op' = "none"
    /\ arg' = NoneV
    /\ ret' = NoneV
    /\ ret2' = NoneV
    /\ calls' = << >>
    /\ handed' = << >>
    /\ UNCHANGED << G, registry, regLog >>

\* Registrations, lookups and runs on query texts.
Next ==
    \/ \E r \in RegCalls : Register(r.name, r.func)
    \/ \E name \in LookupNames : GetAlgorithm(name)
    \/ \E query \in QueryTexts : Run(query)
    \/ Return

Spec == Init /\ [][Next]_vars

\* Runs of parsed queries, each possibly repeated.
NextQuery ==
    \/ \E q \in Queries : Run(QueryText(PlainText, << q >>))
    \/ RunAgain
    \/ Return

SpecQuery == InitQuery /\ [][NextQuery]_vars

\* The pattern matcher and its two predicates.
\* list(Cypher._match_single(pat, seed)), with the dict objects it makes.
MatchSingle(pat, seed) ==
    /\ pc = "idle"
    /\ pc' = "done"
    /\ op' = "_match_single"
    /\ arg' = [pat |-> pat, seed |-> seed]
    /\ ret' = MatchFromOn(G, Heap(<< seed >>, << >>), pat, SeedObject, 1)
    /\ UNCHANGED << G, registry, regLog, ret2, calls, handed >>

NextMatch ==
    \/ \E i \in 1..Len(G.nodes), npat \in NodePatterns : NodeOk(i, npat)
    \/ \E i \in 1..Len(G.edges), rpat \in RelPatterns : RelOk(i, rpat)
    \/ \E p1 \in Patterns, p2 \in Patterns : MatchPatterns(p1, p2)
    \/ \E pat \in Patterns \cup {TwoSteps}, seed \in Seeds : MatchSingle(pat, seed)
    \/ Return

SpecMatch == InitMatch /\ [][NextMatch]_vars

\* The path-finding built-ins, called directly.
InitAlgo == InitOn(AlgoGraphs)

\* The arguments of a built-in: the s-th and t-th node of the graph and the
\* parameter.
AlgoArgs(s, t, n) == [source |-> G.nodes[s], target |-> G.nodes[t], param |-> IntV(n)]

\* _kshortest_impl(G, source, target, k)
KShortest(s, t, k, selfPath) ==
    /\ pc = "idle"
    /\ pc' = "done"
    /\ op' = "_kshortest_impl"
    /\ arg' = AlgoArgs(s, t, k)
    /\ ret' = _kshortest_impl(G, G.nodes[s], G.nodes[t], IntV(k), selfPath)
    /\ UNCHANGED << G, registry, regLog, ret2, calls, handed >>

\* _bfs_impl(G, source, target, depth)
Bfs(s, t, depth) ==
    /\ pc = "idle"
    /\ pc' = "done"
    /\ op' = "_bfs_impl"
    /\ arg' = AlgoArgs(s, t, depth)
    /\ ret' = _bfs_impl(G, G.nodes[s], G.nodes[t], IntV(depth))
    /\ UNCHANGED << G, registry, regLog, ret2, calls, handed >>

\* _wshortest_impl(G, source, target, _)
WShortest(s, t, param) ==
    /\ pc = "idle"
    /\ pc' = "done"
    /\ op' = "_wshortest_impl"
    /\ arg' = AlgoArgs(s, t, param)
    /\ ret' = _wshortest_impl(G, G.nodes[s], G.nodes[t], IntV(param))
    /\ UNCHANGED << G, registry, regLog, ret2, calls, handed >>

NextAlgo ==
    \/ \E s, t \in 1..Len(G.nodes), k \in Params, selfPath \in BOOLEAN :
           KShortest(s, t, k, selfPath)
    \/ \E s, t \in 1..Len(G.nodes), depth \in Params : Bfs(s, t, depth)
    \/ \E s, t \in 1..Len(G.nodes), param \in Params : WShortest(s, t, param)
    \/ Return

SpecAlgo == InitAlgo /\ [][NextAlgo]_vars

\* The expression evaluator and the projection, called directly.
InitEval == InitOn(EvalGraphs)

\* Cypher._project_row(items, row)
ProjectRow(items, row) ==
    /\ pc = "idle"
    /\ pc' = "done"
    /\ op' = "_project_row"
    /\ arg' = [items |-> items, row |-> row]
    /\ ret' = _project_row(G, items, row)
    /\ UNCHANGED << G, registry, regLog, ret2, calls, handed >>

\* Cypher._eval_expr(expr, row)
EvalExpr(expr, row) ==
    /\ pc = "idle"
    /\ pc' = "done"
    /\ op' = "_eval_expr"
    /\ arg' = [expr |-> expr, row |-> row]
    /\ ret' = _eval_expr(G, expr, row)
    /\ UNCHANGED << G, registry, regLog, ret2, calls, handed >>

NextEval ==
    \/ \E items \in ItemLists, row \in BindingRows : ProjectRow(items, row)
    \/ \E expr \in EvalExprs, row \in BindingRows : EvalExpr(expr, row)
    \/ Return

SpecEval == InitEval /\ [][NextEval]_vars

\* Cypher.run and the caller that takes the rows one by one.
InitRun == InitOn(RunGraphs)

\* it = Cypher.run(query)
RunIter(query) ==
    /\ pc = "idle"
    /\ pc' = "done"
    /\ op' = "run"
    /\ arg' = query
    /\ \E r \in {run(G, registry, query)} : ret' = Propagated(r.out) /\ calls' = r.calls
    /\ UNCHANGED << G, registry, regLog, ret2, handed >>

\* next(it): the caller takes the next row, or gets the exception the
\* iterator raises.
TakeRow ==
    /\ pc = "done"
    /\ op = "run"
    /\ ret.k = "list_iterator"
    /\ ret.items # << >> \/ ret.fail # NoneV
    /\ IF ret.items # << >>
       THEN /\ handed' = Append(handed, Head(ret.items))
            /\ ret' = [ret EXCEPT !.items = Tail(@)]
       ELSE /\ handed' = handed
            /\ ret' = ret.fail
    /\ UNCHANGED << G, registry, regLog, pc, op, arg, ret2, calls >>

NextRun ==
    \/ \E query \in RunTexts : RunIter(query)
    \/ TakeRow
    \/ Return

SpecRun == InitRun /\ [][NextRun]_vars

-----------------------------------------------------------------------------
(* Properties                                                              *)

\* A call has returned (or raised).
Returned(name) == pc \in {"done", "again"} /\ op = name

\* The last call was a run that went through the parser.
RanQuery == Returned("run") /\ ~re_search(arg.text).found /\ arg.ast # << >>
LastQuery == arg.ast[1]

\* The projected rows of the last query, before ORDER BY.
Projected == FilterProject(G, LastQuery, _match(G, LastQuery.match), ListV(<< >>), 1)

\* a < b holds; a and b are ordered; neither is smaller.
Less(a, b) == Compare("<", a, b) = TrueV
Comparable(keys) ==
    \A i, j \in 1..Len(keys) : ~IsRaise(Compare("<", keys[i], keys[j]))
Tie(a, b) == ~Less(a, b) /\ ~Less(b, a)

\* The stable sorts, stated by the place of each row: after the rows of a
\* smaller (greater) key and after the earlier rows of an equal key.
AscPlace(keys, i) ==
    1 + Cardinality({j \in 1..Len(keys) :
                        Less(keys[j], keys[i]) \/ (j < i /\ Tie(keys[i], keys[j]))})
DescPlace(keys, i) ==
    1 + Cardinality({j \in 1..Len(keys) :
                        Less(keys[i], keys[j]) \/ (j < i /\ Tie(keys[i], keys[j]))})
SortedAsc(rows, keys) ==
    [p \in 1..Len(rows) |-> rows[CHOOSE i \in 1..Len(rows) : AscPlace(keys, i) = p]]
SortedDesc(rows, keys) ==
    [p \in 1..Len(rows) |-> rows[CHOOSE i \in 1..Len(rows) : DescPlace(keys, i) = p]]

\* An order expression that names a column of the projected rows, and the
\* tuple of the values of the ordered columns of a row.
IsColumn(expr, rows) ==
    /\ expr.k = "tuple"
    /\ Len(expr.v) = 2
    /\ expr.v[1] = StrV(s_var)
    /\ \A i \in 1..Len(rows) : expr.v[2].v \in DOMAIN rows[i].v
ColumnKey(order_by, row) ==
    TupV([i \in 1..Len(order_by) |-> row.v[order_by[i].expr.v[2].v]])
ColumnKeys(order_by, rows) == [i \in 1..Len(rows) |-> ColumnKey(order_by, rows[i])]

\* C1: for a query with an ORDER BY clause in which no item is descending,
\* run returns the projected rows sorted in non-decreasing order of the
\* tuple of the order expressions' values, rows of equal tuples in the order
\* matching produced them.  Stated for the order expressions the claim names
\* first, the ordered columns, whose values are ordered: the rows returned
\* are the stable ascending sort by those column values (then SKIP/LIMIT).
C1_OrderByColumn ==
    (/\ RanQuery
     /\ Len(LastQuery.order_by) > 0
     /\ \A i \in 1..Len(LastQuery.order_by) : ~LastQuery.order_by[i].desc
     /\ ~IsRaise(Projected)
     /\ \A i \in 1..Len(LastQuery.order_by) :
            IsColumn(LastQuery.order_by[i].expr, Projected.v)
     /\ Comparable(ColumnKeys(LastQuery.order_by, Projected.v)))
    => LET rows == Projected.v
           keys == ColumnKeys(LastQuery.order_by, rows)
       IN  ret = ListV(SkipLimitStep(LastQuery, SortedAsc(rows, keys)))

\* The rows the two patterns of the last _match produce on their own.
Alone(j) == _match_single(G, arg.patterns[j], EmptyRow)

\* C2: for a Match of two Patterns that on their own produce m and n binding
\* rows, _match produces exactly m * n rows, also when the two Patterns use
\* the same variable name.
C2_CrossJoin ==
    Returned("_match") => Len(ret.v) = Len(Alone(1)) * Len(Alone(2))

\* Two patterns that share their head variable, each with several rows.
C2_Witness ==
    /\ Returned("_match")
    /\ arg.patterns[1].head.var = StrV(v_a)
    /\ arg.patterns[2].head.var = StrV(v_a)
    /\ arg.patterns[1] # arg.patterns[2]
    /\ Len(Alone(1)) >= 2
    /\ Len(Alone(2)) >= 2
    /\ Len(Alone(1)) # Len(Alone(2))
    /\ Len(ret.v) = Len(Alone(1)) * Len(Alone(2))

\* The attribute dict of the node, and of the edge, the last call was about.
NodeData == G.ndata[CHOOSE i \in 1..Len(G.nodes) : G.nodes[i] = arg.nid]
EdgeDataOf ==
    G.edges[CHOOSE i \in 1..Len(G.edges) :
                /\ G.edges[i].u = arg.u
                /\ G.edges[i].v = arg.v
                /\ EdgeKey(G, G.edges[i]) = arg.key].data
LabelSet(data) == IF s_labels \in DOMAIN data THEN data[s_labels].v ELSE {}

\* C3: _node_ok(n, p) is true if and only if every label of p is in the
\* label set of n (empty for a node without a labels attribute) and, for
\* every required key k with value v of p.properties, the node has attribute
\* k and its value equals v; a node lacking k never matches.
C3_NodeOkIff ==
    Returned("_node_ok") =>
        (ret = TrueV <=>
            /\ Range(arg.npat.labels.v) \subseteq LabelSet(NodeData)
            /\ \A key \in DOMAIN arg.npat.properties.v :
                   /\ key \in DOMAIN NodeData
                   /\ PyEq(NodeData[key], arg.npat.properties.v[key]))

\* The edge's attribute of a key: None when the edge has no such attribute.
Attr(data, key) == IF key \in DOMAIN data THEN data[key] ELSE NoneV

Ordered == OrderStep(G, LastQuery, Projected)

Min(a, b) == IF a < b THEN a ELSE b
Max(a, b) == IF a > b THEN a ELSE b

Keys ==
    LET projected == Projected
    IN  IF IsRaise(projected) THEN projected
        ELSE SortKeys(G, LastQuery.order_by, projected.v, ListV(<< >>), 1)

\* The keys exist and are ordered.
Sortable(keys) == ~IsRaise(keys) /\ Comparable(keys.v)

\* The last query had an ORDER BY clause.
RanOrderBy == RanQuery /\ Len(LastQuery.order_by) > 0

OneDescending == Len(LastQuery.order_by) = 1 /\ LastQuery.order_by[1].desc

\* C6 (as the claim states it): descending order takes effect exactly when
\* ORDER BY has one OrderItem and it is marked descending; then run returns
\* the reverse of the ascending stable sort of the same rows; otherwise, and
\* with two or more OrderItems whatever their flags, the ascending stable
\* sort by the key tuple (SKIP and LIMIT applied to either).
C6_ReverseOfAscending ==
    RanOrderBy =>
        LET keys == Keys
        IN  Sortable(keys) =>
                LET rows == Projected.v
                IN  ret = ListV(SkipLimitStep(LastQuery,
                              IF OneDescending THEN Reverse(SortedAsc(rows, keys.v))
                              ELSE SortedAsc(rows, keys.v)))

\* C6 (amended): descending order takes effect exactly when ORDER BY has one
\* OrderItem and it is marked descending; then run returns the stable
\* descending sort of the rows: keys non-increasing, rows of equal keys in
\* their original relative order; otherwise, and with two or more OrderItems
\* whatever their flags, the ascending stable sort by the key tuple (SKIP and
\* LIMIT applied to either).
C6_StableDescending ==
    RanOrderBy =>
        LET keys == Keys
        IN  Sortable(keys) =>
                LET rows == Projected.v
                IN  ret = ListV(SkipLimitStep(LastQuery,
                              IF OneDescending THEN SortedDesc(rows, keys.v)
                              ELSE SortedAsc(rows, keys.v)))

\* One descending item over three rows, two of them with equal keys and one
\* with a greater key that descending order moves to the front.
C6_Witness ==
    /\ RanOrderBy
    /\ OneDescending
    /\ LastQuery.skip = NoneV
    /\ LastQuery.limit = NoneV
    /\ Sortable(Keys)
    /\ Len(Projected.v) = 3
    /\ Tie(Keys.v[1], Keys.v[3])
    /\ Less(Keys.v[1], Keys.v[2])
    /\ ret = ListV(<< Projected.v[2], Projected.v[1], Projected.v[3] >>)

\* The inline tokens of a text, stated on the text: << i, j, k >> when "*" is
\* at i, NAME (word characters) is i+1..j, "|" is at j+1 and INTEGER (all
\* the digits that follow) is j+2..k.
Tokens(text) ==
    UNION {UNION {{<< i, j, k >> :
                      k \in {k \in (j + 2)..Len(text) :
                                /\ \A m \in (j + 2)..k : IsDigit(text[m])
                                /\ k = Len(text) \/ ~IsDigit(text[k + 1])}} :
                  j \in {j \in (i + 1)..(Len(text) - 2) :
                            /\ \A m \in (i + 1)..j : IsWord(text[m])
                            /\ text[j + 1] = "|"}} :
           i \in {i \in 1..Len(text) : text[i] = "*"}}

\* The first (leftmost) token, its NAME and its INTEGER.
FirstToken(text) ==
    LET tokens == Tokens(text)
    IN  CHOOSE t \in tokens : \A t2 \in tokens : t[1] <= t2[1]
TokenName(text) ==
    LET t == FirstToken(text) IN SubSeq(text, t[1] + 1, t[2])
TokenInteger(text) ==
    LET t == FirstToken(text) IN ParseInt(SubSeq(text, t[2] + 2, t[3]))

\* The last call was a run on a text with an inline token.
RanToken == Returned("run") /\ Tokens(arg.text) # {}

\* The calls of run to a function of a given name.
CallsTo(fn) == {i \in 1..Len(calls) : calls[i].fn = fn}

\* C7: when the text contains a token *NAME|INTEGER and the graph has at
\* least two nodes, run never invokes the parser or the pattern matcher; it
\* calls the algorithm registered under NAME upper-cased (the first token's)
\* once, with the first node and the last node of the node enumeration and
\* INTEGER, and returns one row per returned path, in the order returned,
\* each with the single column "path" holding that path.
C7_Dispatch ==
    (RanToken /\ Len(G.nodes) >= 2) =>
        /\ CallsTo("parse") = {}
        /\ CallsTo("_match") = {}
        /\ Upper(TokenName(arg.text)) \in DOMAIN registry =>
             LET algo == registry[Upper(TokenName(arg.text))]
                 args == << algo, G.nodes[1], G.nodes[Len(G.nodes)],
                            IntV(TokenInteger(arg.text)) >>
                 paths == CallAlgo(algo, G, args[2], args[3], args[4])
             IN  /\ Cardinality(CallsTo("algo")) = 1
                 /\ \A i \in CallsTo("algo") : calls[i].args = args
                 /\ ret.k = "list"
                 /\ Len(ret.v) = Len(paths.v)
                 /\ \A i \in 1..Len(ret.v) : ret.v[i] = DictV(s_path :> paths.v[i])

\* A token behind other text, in a text the parser would accept, on the
\* four-node graph: BFS is called with "a", "d" and 2 and its four paths
\* come back as four rows.
C7_Witness ==
    /\ RanToken
    /\ arg.ast # << >>
    /\ FirstToken(arg.text)[1] > 1
    /\ G = GLine
    /\ calls = << Call("get_algorithm", << StrV(<< "B", "F", "S" >>) >>),
                  Call("algo", << FuncV("_bfs_impl"), StrV(<< "a" >>),
                                  StrV(<< "d" >>), IntV(2) >>) >>
    /\ Len(ret.v) = 4
    /\ ret.v[4] = DictV(s_path :> ListV(<< StrV(<< "a" >>), StrV(<< "b" >>),
                                            StrV(<< "c" >>) >>))

\* The first token's NAME, upper-cased, is not in the registry.
UnknownName == RanToken /\ Upper(TokenName(arg.text)) \notin DOMAIN registry

\* C8 (as the claim states it): for every graph and every text with an
\* inline *NAME|N token whose NAME is not in the registry, run raises
\* KeyError and yields no rows; no algorithm is invoked.
C8_UnknownNameAnyGraph ==
    UnknownName => ret = Raise("KeyError") /\ CallsTo("algo") = {}

\* C8 (amended): for every graph with at least two nodes and every text
\* whose first inline *NAME|N token has a NAME that, upper-cased, is not in
\* the registry, run raises KeyError and yields no rows; no algorithm is
\* invoked.
C8_UnknownName ==
    (UnknownName /\ Len(G.nodes) >= 2) =>
        ret = Raise("KeyError") /\ CallsTo("algo") = {}

\* An unknown NAME in the first token, a registered one in a later token.
C8_Witness ==
    /\ UnknownName
    /\ Len(G.nodes) >= 2
    /\ \E t \in Tokens(arg.text) :
           Upper(SubSeq(arg.text, t[1] + 1, t[2])) \in DOMAIN registry
    /\ ret = Raise("KeyError")
    /\ calls = << Call("get_algorithm", << StrV(<< "Z", "Z" >>) >>) >>

\* C9: when the text contains an inline *NAME|INTEGER token and the graph
\* has zero or one node, run returns an empty row sequence and raises no
\* error, for every NAME and INTEGER, and no algorithm is invoked.
C9_FewNodes ==
    (RanToken /\ Len(G.nodes) < 2) => ret = ListV(<< >>) /\ CallsTo("algo") = {}

\* A graph of one node and a NAME that is not registered.
C9_Witness ==
    /\ UnknownName
    /\ Len(G.nodes) = 1
    /\ ret = ListV(<< >>)
    /\ calls = << >>

\* Two names are equal ignoring letter case.
EqIgnoreCase(s, t) ==
    Len(s) = Len(t) /\ \A i \in 1..Len(s) : UpperChar(s[i]) = UpperChar(t[i])

\* The registrations so far whose name equals n ignoring letter case.
RegistrationsOf(n) == {i \in 1..Len(regLog) : EqIgnoreCase(regLog[i].name, n)}

\* What the claim says get_algorithm(n) answers.
MostRecent(n) ==
    IF RegistrationsOf(n) = {} THEN Raise("KeyError")
    ELSE regLog[CHOOSE i \in RegistrationsOf(n) :
                    \A j \in RegistrationsOf(n) : j <= i].func

C10_Lookup ==
    /\ Returned("get_algorithm") => ret = MostRecent(arg.v)
    /\ \A key \in DOMAIN registry : key = Upper(key)

C10_GetKeepsRegistry == op' = "get_algorithm" => registry' = registry

\* C10: after any sequence of register_algorithm and get_algorithm calls,
\* get_algorithm(n) returns the function of the most recent register call
\* whose name equals n ignoring letter case and raises KeyError exactly when
\* there is none; every key of the registry is its own upper-case form; and
\* a get_algorithm call, failing or not, leaves the registry unchanged.
C10_Registry == [](C10_Lookup) /\ [][C10_GetKeepsRegistry]_vars

\* A lookup that finds the later of two registrations of different functions
\* under two case variants of a name, neither of them the name looked up.
C10_Witness ==
    /\ Returned("get_algorithm")
    /\ \E i, j \in RegistrationsOf(arg.v) :
           /\ i < j
           /\ regLog[i].name # regLog[j].name
           /\ regLog[i].func # regLog[j].func
           /\ regLog[i].name # arg.v
           /\ regLog[j].name # arg.v
           /\ \A m \in RegistrationsOf(arg.v) : m <= j
           /\ ret = regLog[j].func

-----------------------------------------------------------------------------
(* Properties of the path-finding built-ins                                 *)

\* The non-empty node sequences as long as G has nodes, at most.
NodeSeqs == UNION {[1..n -> Range(G.nodes)] : n \in 1..Len(G.nodes)}
HasEdge(u, v) == \E i \in 1..Len(G.edges) : G.edges[i].u = u /\ G.edges[i].v = v
\* p repeats no node and follows edges of G.
IsSimple(p) ==
    /\ \A i, j \in 1..Len(p) : i # j => p[i] # p[j]
    /\ \A i \in 1..(Len(p) - 1) : HasEdge(p[i], p[i + 1])
IsPathFromTo(p, s, t) == Len(p) >= 1 /\ p[1] = s /\ p[Len(p)] = t /\ IsSimple(p)
\* The simple paths of at least one edge from s to t.
SimplePaths(s, t) == {p \in NodeSeqs : Len(p) >= 2 /\ IsPathFromTo(p, s, t)}

\* C11: _kshortest_impl returns at most k paths, each a simple path from
\* source to target along edges of the graph, in non-decreasing order of
\* edge count; when the graph has fewer than k simple paths (of at least one
\* edge) from source to target, every one of them is in the result.
C11_KShortest ==
    Returned("_kshortest_impl") =>
        /\ ~IsRaise(ret)
        /\ Len(ret.v) <= arg.param.v[1]
        /\ \A i \in 1..Len(ret.v) : IsPathFromTo(ret.v[i].v, arg.source, arg.target)
        /\ \A i \in 1..(Len(ret.v) - 1) : Len(ret.v[i].v) <= Len(ret.v[i + 1].v)
        /\ LET all == SimplePaths(arg.source, arg.target)
           IN  Cardinality(all) < arg.param.v[1] =>
                   \A p \in all : \E i \in 1..Len(ret.v) : ret.v[i].v = p

\* Node n is at most d edges away from s.
Within(s, n, d) == \E p \in NodeSeqs : IsPathFromTo(p, s, n) /\ Len(p) - 1 <= d
\* The indices of the returned paths that end in n.
EndingIn(n) == {i \in 1..Len(ret.v) : ret.v[i].v[Len(ret.v[i].v)] = n}

\* C12: _bfs_impl returns exactly one path for each node at distance at most
\* depth from source and none for any other node; each path starts at
\* source, follows edges of the graph, repeats no node and has at most depth
\* edges; the result is the same for every target.
C12_Bfs ==
    Returned("_bfs_impl") =>
        /\ ~IsRaise(ret)
        /\ \A n \in Range(G.nodes) :
               Cardinality(EndingIn(n)) =
                   IF Within(arg.source, n, arg.param.v[1]) THEN 1 ELSE 0
        /\ \A i \in 1..Len(ret.v) :
               /\ Len(ret.v[i].v) >= 1
               /\ ret.v[i].v[Len(ret.v[i].v)] \in Range(G.nodes)
               /\ IsPathFromTo(ret.v[i].v, arg.source, ret.v[i].v[Len(ret.v[i].v)])
               /\ Len(ret.v[i].v) - 1 <= arg.param.v[1]
        /\ \A t \in Range(G.nodes) : _bfs_impl(G, arg.source, t, arg.param) = ret

\* The search of test_bfs_algorithm: depth 2 from a on the line graph, four
\* paths, none to d along the line.
C12_Witness ==
    /\ Returned("_bfs_impl")
    /\ G = GLine
    /\ arg.source = StrV(<< "a" >>)
    /\ arg.param = IntV(2)
    /\ Len(ret.v) = 4
    /\ ret.v[4] = ListV(<< StrV(<< "a" >>), StrV(<< "b" >>), StrV(<< "c" >>) >>)

\* The least weight of the edges of G from u to v, and the total weight of
\* a path that follows edges of G.
LeastWeight(u, v) ==
    LET ws == {EdgeCost(G.edges[i]) :
                 i \in {j \in 1..Len(G.edges) : G.edges[j].u = u /\ G.edges[j].v = v}}
    IN  CHOOSE w \in ws : \A w2 \in ws : w <= w2
RECURSIVE WeightFrom(_, _)
WeightFrom(p, i) ==
    IF i >= Len(p) THEN 0 ELSE LeastWeight(p[i], p[i + 1]) + WeightFrom(p, i + 1)
PathWeight(p) == WeightFrom(p, 1)
\* The simple paths from s to t, the one-node path included.
PathsFromTo(s, t) == {p \in NodeSeqs : IsPathFromTo(p, s, t)}

\* C13: on a graph with non-negative edge weights _wshortest_impl returns,
\* when target is reachable from source, a list of exactly one path from
\* source to target whose total weight is the least of all paths from source
\* to target, and when it is not, the empty list; it raises nothing.
C13_WShortest ==
    Returned("_wshortest_impl") =>
        LET all == PathsFromTo(arg.source, arg.target)
        IN  /\ ~IsRaise(ret)
            /\ all = {} => ret.v = << >>
            /\ all # {} =>
                   /\ Len(ret.v) = 1
                   /\ ret.v[1].v \in all
                   /\ \A p \in all : PathWeight(ret.v[1].v) <= PathWeight(p)

\* The search of test_wshortest_algorithm: the line a, b, c, d of weight 3
\* beats the edge a -> d of weight 10.
C13_Witness ==
    /\ Returned("_wshortest_impl")
    /\ G = GWeighted
    /\ ret = ListV(<< ListV(<< StrV(<< "a" >>), StrV(<< "b" >>), StrV(<< "c" >>),
                              StrV(<< "d" >>) >>) >>)
    /\ PathWeight(ret.v[1].v) = 3

\* A target that cannot be reached: the empty list.
C13_Unreachable ==
    /\ Returned("_wshortest_impl")
    /\ G = GWeights
    /\ arg.target = StrV(<< "d" >>)
    /\ arg.source # arg.target
    /\ ret = ListV(<< >>)

-----------------------------------------------------------------------------
(* Properties of the projection and of the expression evaluator             *)

\* The tag of an expression tuple.
Tag(expr) == expr.v[1].v
\* The name derived from an expression of one of the three named shapes.
DerivedName(expr) ==
    CASE Tag(expr) = s_prop -> expr.v[2].v \o << "." >> \o expr.v[3].v
      [] Tag(expr) = s_var -> expr.v[2].v
      [] Tag(expr) = s_count_all -> s_count
HasDerivedName(expr) == Tag(expr) \in {s_prop, s_var, s_count_all}
\* The value of the i-th item of the projected list on the projected row.
ItemValue(i) == _eval_expr(G, arg.items[i].expr, arg.row)

\* C14: _project_row returns a mapping that holds, for each ReturnItem, the
\* value of the item's expression under the item's key: the alias when one is
\* given, otherwise "<variable>.<property>", the variable name or "count".
C14_EveryItem ==
    Returned("_project_row") =>
        /\ ret.k = "dict"
        /\ \A i \in 1..Len(arg.items) :
               LET it == arg.items[i]
               IN  (it.alias.k # "None" \/ HasDerivedName(it.expr)) =>
                       LET key == IF it.alias.k # "None" THEN it.alias.v
                                  ELSE DerivedName(it.expr)
                       IN  key \in DOMAIN ret.v /\ ret.v[key] = ItemValue(i)

\* The key the code stores an item under: the alias when it is given and not
\* empty, otherwise the derived name, "expr" for the other shapes.
OutputKey(it) ==
    IF it.alias.k # "None" /\ it.alias.v # << >> THEN it.alias.v
    ELSE IF HasDerivedName(it.expr) THEN DerivedName(it.expr)
    ELSE s_expr
\* The items whose evaluation raises.
Failing == {i \in 1..Len(arg.items) : IsRaise(ItemValue(i))}

\* C14 (amended): when the evaluation of an item raises, _project_row raises
\* the exception of the first such item; otherwise it returns a mapping
\* whose keys are the items' output keys and that holds, for each item not
\* followed by an item of the same key, the value of the item's expression
\* under that key; the key is the alias when one is given and not empty,
\* otherwise the derived name, "expr" for a shape without one.
C14_LastItemOfKey ==
    Returned("_project_row") =>
        IF Failing # {}
        THEN ret = ItemValue(CHOOSE i \in Failing : \A j \in Failing : i <= j)
        ELSE /\ ret.k = "dict"
             /\ DOMAIN ret.v = {OutputKey(arg.items[i]) : i \in 1..Len(arg.items)}
             /\ \A i \in 1..Len(arg.items) :
                    (\A j \in (i + 1)..Len(arg.items) :
                         OutputKey(arg.items[j]) # OutputKey(arg.items[i]))
                    => ret.v[OutputKey(arg.items[i])] = ItemValue(i)

\* a.name AS src, a.age AS src: the mapping holds the age only.
C14_Witness ==
    /\ Returned("_project_row")
    /\ arg.items = << ReturnItem(Prop(v_a, k_name), StrV(c_src)),
                      ReturnItem(Prop(v_a, k_age), StrV(c_src)) >>
    /\ arg.row[v_a] = NodeRef(IntV(1))
    /\ ret = DictV(Put(EmptyRow, c_src, IntV(35)))

\* An expression tuple with the given tag.
IsTagged(e, tag) == e.k = "tuple" /\ Len(e.v) > 0 /\ e.v[1] = StrV(tag)
\* The supported shapes of an expression.
Supported(e) == \E tag \in {s_lit, s_var, s_prop, s_count_all, s_bin, s_un} : IsTagged(e, tag)
\* The values of the operands of the evaluated operation.
LeftValue == _eval_expr(G, arg.expr.v[3], arg.row)
RightValue == _eval_expr(G, arg.expr.v[4], arg.row)

\* C16: _eval_expr is total: it returns a value for every expression of a
\* supported shape, and the null value for every expression of an
\* unsupported shape.
C16_Total ==
    Returned("_eval_expr") =>
        IF Supported(arg.expr) THEN ~IsRaise(ret) ELSE ret = NoneV

\* The outcome of a unary operation: the operand's exception; a bool for
\* NOT; for the negation a number, or TypeError on an operand that is none.
UnOutcome(o, av) ==
    IF IsRaise(av) THEN ret = av
    ELSE IF o = OpNot THEN ret.k = "bool"
    ELSE IF IsNum(av) THEN IsNum(ret)
    ELSE ret = Raise("TypeError")

\* The outcome of a binary operation: the exception of the first operand
\* that raises; a bool for =, <>, AND, OR; on two numbers a number or bool,
\* ZeroDivisionError for / and % by zero; otherwise a value or TypeError.
BinOutcome(o, av, bv) ==
    IF IsRaise(av) THEN ret = av
    ELSE IF IsRaise(bv) THEN ret = bv
    ELSE IF o \in {OpEq, OpNe, OpAnd, OpOr} THEN ret.k = "bool"
    ELSE IF IsNum(av) /\ IsNum(bv)
    THEN IF o \in {OpDiv, OpMod} /\ bv.v[1] = 0 THEN ret = Raise("ZeroDivisionError")
         ELSE IsNum(ret)
    ELSE IsRaise(ret) => ret = Raise("TypeError")

\* C16 (amended): _eval_expr returns a value that is not a tuple, and a
\* tuple whose first element is not a known tag, unchanged, and raises
\* IndexError on the empty tuple; it returns the value of a literal, the
\* sentinel for the count-all marker, and a value for a variable reference
\* and a property access on a binding row; an operation raises what its
\* operands raise and what the operator raises on their values.
C16_EvalOutcome ==
    Returned("_eval_expr") =>
        LET e == arg.expr
        IN  IF ~Supported(e)
            THEN IF e = TupV(<< >>) THEN ret = Raise("IndexError") ELSE ret = e
            ELSE IF IsTagged(e, s_lit) THEN ret = e.v[2]
            ELSE IF IsTagged(e, s_count_all) THEN ret = TupV(<< StrV(s_sentinel) >>)
            ELSE IF IsTagged(e, s_var) \/ IsTagged(e, s_prop) THEN ~IsRaise(ret)
            ELSE IF IsTagged(e, s_un) THEN UnOutcome(e.v[2].v, LeftValue)
            ELSE BinOutcome(e.v[2].v, LeftValue, RightValue)

\* A tuple with an unknown tag comes back as it is.
C16_Witness ==
    /\ Returned("_eval_expr")
    /\ arg.expr = TupV(<< StrV(s_dummy), IntV(1) >>)
    /\ ret = arg.expr

\* a.name + 1 raises TypeError.
C16_Raises ==
    /\ Returned("_eval_expr")
    /\ arg.expr = Bin(OpAdd, Prop(v_a, k_name), Lit(IntV(1)))
    /\ ret = Raise("TypeError")

\* C17: an AND or OR expression evaluates both operands before the operator
\* is applied, whatever the left operand's value is: a failure of the right
\* operand propagates also when the left operand decides the result; the
\* result is the conjunction or disjunction of the operands' truthiness.
C17_BothOperands ==
    (Returned("_eval_expr") /\ IsTagged(arg.expr, s_bin)
        /\ arg.expr.v[2].v \in {OpAnd, OpOr}) =>
        IF IsRaise(LeftValue) THEN ret = LeftValue
        ELSE IF IsRaise(RightValue) THEN ret = RightValue
        ELSE ret = BoolV(IF arg.expr.v[2].v = OpAnd
                         THEN Truthy(LeftValue) /\ Truthy(RightValue)
                         ELSE Truthy(LeftValue) \/ Truthy(RightValue))

\* 0 AND 1 / 0 raises ZeroDivisionError although 0 decides the conjunction.
C17_Witness ==
    /\ Returned("_eval_expr")
    /\ arg.expr = Bin(OpAnd, Lit(IntV(0)), Bin(OpDiv, Lit(IntV(1)), Lit(IntV(0))))
    /\ ret = Raise("ZeroDivisionError")

\* A raw scalar, as opposed to a tagged ("node", id) or ("edge", (u, v, k))
\* reference.
Scalar(x) == x.k \in {"None", "bool", "int", "float", "str"}
\* The order expression is a variable reference or a property access whose
\* variable holds a raw scalar in every projected row.
OnScalar(expr, rows) ==
    /\ IsTagged(expr, s_var) \/ IsTagged(expr, s_prop)
    /\ \A i \in 1..Len(rows) :
           /\ expr.v[2].v \in DOMAIN rows[i].v
           /\ Scalar(rows[i].v[expr.v[2].v])

\* C18: in the calls of _resolve that evaluate the ORDER BY expressions on
\* the projected rows, a row value that is a raw scalar is never treated as
\* a node or edge reference and does not make the resolution fail: the sort
\* keys of rows whose ordered variables hold scalars are all computed.
C18_ScalarNeverFails ==
    (/\ RanOrderBy
     /\ ~IsRaise(Projected)
     /\ \A i \in 1..Len(LastQuery.order_by) :
            OnScalar(LastQuery.order_by[i].expr, Projected.v))
    => ~IsRaise(Keys)

\* The objects that were yielded, in order.
YieldedIds == [i \in 1..Len(ret.out) |-> ret.out[i].id]

\* C19: _match_single and _walk_chain never modify the seed row or a row
\* already yielded: the seed has its content after the enumeration, it is
\* not itself yielded, every yielded row is an object of its own, and each
\* yielded row has at the end the content it had when it was yielded.
C19_RowsNotModified ==
    Returned("_match_single") =>
        /\ ret.objs[SeedObject] = arg.seed
        /\ \A i \in 1..Len(ret.out) : ret.out[i].id # SeedObject
        /\ \A i, j \in 1..Len(ret.out) : i # j => ret.out[i].id # ret.out[j].id
        /\ \A i \in 1..Len(ret.out) : ret.objs[ret.out[i].id] = ret.out[i].content

\* The rows yielded, by content, are the rows of _match_single.
C19_SameRows ==
    Returned("_match_single") =>
        [i \in 1..Len(ret.out) |-> ret.out[i].content]
            = _match_single(G, arg.pat, arg.seed)

\* Two rows are yielded from a seed that binds a and r, each binding a, r
\* and b on its own copy, and both differ from the seed in a binding of the
\* seed.
C19_Witness ==
    /\ Returned("_match_single")
    /\ Len(arg.pat.chain) > 0
    /\ DOMAIN arg.seed = {v_a, v_r}
    /\ Len(ret.out) >= 2
    /\ \A i \in 1..Len(ret.out) :
           /\ ret.out[i].content[v_a] # arg.seed[v_a]
           /\ ret.out[i].content[v_r] # arg.seed[v_r]
    /\ ret.out[1].content # ret.out[2].content

-----------------------------------------------------------------------------
(* Properties of run and its caller                                         *)

\* C15: when parsing, the algorithm lookup or the evaluation of the WHERE,
\* RETURN or ORDER BY expression of a row fails, the failure is raised by
\* run itself, before the caller has received a row: the call of run ends
\* with the exception of its body, and once a row has been handed out no
\* failure follows.
C15_RaisedByRun ==
    [][/\ (pc = "idle" /\ op' = "run") =>
              \A r \in {run(G, registry, arg').out} :
                  IsRaise(r) => ret' = r /\ handed' = << >>
       /\ handed' # << >> => ~IsRaise(ret')]_vars

\* RETURN 1 / (a.age - 29) fails on the second row: run raises
\* ZeroDivisionError and the caller has no row.
C15_Witness ==
    /\ Returned("run")
    /\ ~ParseFails(arg)
    /\ parse(arg).returns \in FailReturns \ Returns
    /\ parse(arg).where = NoneV
    /\ ret = Raise("ZeroDivisionError")
    /\ handed = << >>

\* The caller has taken all three rows of a sound query.
C15_AllTaken ==
    /\ Returned("run")
    /\ Len(handed) = 3
    /\ ret.k = "list_iterator"
    /\ ret.items = << >>

=============================================================================
